---- MODULE Spec2Model ----
(***************************************************************************)
(* Model of the reconciliation core of pipedrive-automation:               *)
(*   src/pipedrive.py  - CRM product reconciler (pd_replace_deal_products) *)
(*   src/odoo.py       - identity resolver / upsert engine and quotation   *)
(*                                                                         *)
(* The CRM and the ERP are remote servers.  Their state is held in the     *)
(* variables below; every request the code sends is an operator on a       *)
(* "world" record st that threads that state through a handler, counts the *)
(* requests (st.calls) and raises at request number st.failAt, so that a   *)
(* handler is one action whatever request of it fails.                     *)
(***************************************************************************)
EXTENDS Integers, Sequences, FiniteSets, TLC

VARIABLES
    catalog,        \* CRM product catalog: sequence of products, id = position
    dealProducts,   \* CRM: the deal's product list (server side), in order
    dpSeq,          \* CRM: last deal-product id handed out
    notes,          \* CRM: the notes on the deal, in the order they were written
    runs,           \* number of handler invocations started so far
    last,           \* record of the last handler invocation (inputs, outcome)
    procs,          \* racing invocations of pd_replace_deal_products
    crm,            \* CRM: the organization, person and deal records pd_get serves
    allow,          \* configuration: GERMANY_USER_IDS, the owner allow-list
    partners,       \* ERP: res.partner records, id = position
    leads,          \* ERP: crm.lead records, id = position
    orders,         \* ERP: sale.order records, id = position
    lines,          \* ERP: sale.order.line records
    lineSeq,        \* ERP: last sale.order.line id handed out
    variants,       \* ERP: product.product records, id = position
    currencies,     \* ERP: res.currency records, id = position
    mapping         \* the id-mapping store: mapping[kind][external_id], 0 = none

crmVars == <<catalog, dealProducts, dpSeq>>
erpVars == <<partners, leads, orders, lines, lineSeq, variants, currencies, mapping>>
vars == <<catalog, dealProducts, dpSeq, notes, runs, last, procs, crm, allow,
          partners, leads, orders, lines, lineSeq, variants, currencies, mapping>>

----------------------------------------------------------------------------
(* Bounds *)

MaxSpecs == 2        \* longest product-spec list handed to the reconciler
MaxInitEntries == 1  \* most deal products attached before the first run
MaxRuns == 2         \* handler invocations per behaviour

----------------------------------------------------------------------------
(* Values *)

\* Python's None / a missing result: the empty sequence; a value x: <<x>>.
None == <<>>
Some(x) == <<x>>
IsSome(o) == Len(o) > 0
Val(o) == o[1]

\* Product names are character sequences, so that lower() and strip() act on them.
NameP1  == <<"P", "1">>
Namep1  == <<"p", "1", " ">>
NameP10 == <<"P", "1", "0">>
NamePool == {NameP1, Namep1, NameP10}

\* str.lower() on one character.
LowerChar(c) == IF c = "P" THEN "p" ELSE c

\* str.lower()
Lower(s) == [k \in 1..Len(s) |-> LowerChar(s[k])]

RECURSIVE LStrip(_)
LStrip(s) == IF s # <<>> /\ Head(s) = " " THEN LStrip(Tail(s)) ELSE s

RECURSIVE RStrip(_)
RStrip(s) == IF s # <<>> /\ s[Len(s)] = " " THEN RStrip(SubSeq(s, 1, Len(s) - 1)) ELSE s

\* str.strip()
Strip(s) == RStrip(LStrip(s))

\* name.lower().strip() of pd_search_product
NormName(s) == Strip(Lower(s))

\* t occurs in s as a contiguous substring
Contains(s, t) ==
    \E k \in 0..(Len(s) - Len(t)) : SubSeq(s, k + 1, k + Len(t)) = t

\* dict.get(key, default)
Get(d, key, default) == IF key \in DOMAIN d THEN d[key] ELSE default

\* The product specs the reconciler is handed (prices in cents).
SpecA == [name |-> NameP1, price |-> 100000, quantity |-> 1, currency |-> "EUR",
          discount |-> 0, tax |-> 0]
SpecB == [name |-> Namep1, price |-> 5000, quantity |-> 2, currency |-> "EUR",
          discount |-> 10, tax |-> 19]
SpecC == [name |-> NameP10]
SpecPool == {SpecA, SpecB, SpecC}

RECURSIVE SeqsUpTo(_, _)
SeqsUpTo(S, n) ==
    IF n = 0 THEN {<<>>}
    ELSE LET shorter == SeqsUpTo(S, n - 1)
         IN shorter \cup {Append(q, x) : q \in {r \in shorter : Len(r) = n - 1}, x \in S}

SpecLists == SeqsUpTo(SpecPool, MaxSpecs)

----------------------------------------------------------------------------
(* The world a handler runs in *)

\* The state a handler starts from, with the outcome of its requests chosen:
\* request number failAt raises (0: none does); commit says whether the server
\* had already applied that request when the client saw it fail (a timeout, a
\* lost response); listOk says whether the deal-products listing answers
\* "success": true.
World(failAt, commit, listOk) ==
    [catalog |-> catalog, deal |-> dealProducts, dpSeq |-> dpSeq, notes |-> notes,
     partners |-> partners, leads |-> leads, orders |-> orders, lines |-> lines,
     lineSeq |-> lineSeq, variants |-> variants, currencies |-> currencies,
     mapping |-> mapping,
     calls |-> 0, failAt |-> failAt, commit |-> commit, listOk |-> listOk,
     soft |-> FALSE, exc |-> FALSE, ret |-> None, created |-> <<>>, log |-> <<>>]

\* The same world, where the failing request is answered HTTP 200 with a body
\* whose success flag is false (and is not applied) instead of an error status.
SoftWorld(failAt, listOk) == [World(failAt, FALSE, listOk) EXCEPT !.soft = TRUE]

\* One more request is sent.
Sent(st) == [st EXCEPT !.calls = @ + 1]

\* The request just sent is the one that fails.
Failing(st) == st.calls = st.failAt

\* raise: the exception propagates through every caller.
Raise(st) == [st EXCEPT !.exc = TRUE, !.ret = None]

Return(st, v) == [st EXCEPT !.ret = v]

\* Sequencing: the statement(s) `then` run on the world `st` a call has left.
Do(st, then(_)) == CHOOSE r \in {then(x) : x \in {st}} : TRUE

----------------------------------------------------------------------------
(* src/pipedrive.py: product operations *)

\* CRM server, GET /products/search: the catalog products matching the term, in
\* catalog order.  exact_match: the name is the term; otherwise the term occurs
\* in the name, letter case and surrounding blanks ignored.
CrmSearchItems(cat, term, exact) ==
    SelectSeq(cat, LAMBDA p : IF exact THEN p.name = term
                              ELSE Contains(NormName(p.name), NormName(term)))

\* The loop of pd_search_product over the fuzzy results: the first item whose
\* normalised name is the normalised term, else the first result.
FuzzyPick(items, name) ==
    LET hits == SelectSeq(items, LAMBDA p : NormName(p.name) = NormName(name))
    IN IF hits # <<>> THEN hits[1] ELSE items[1]

pd_search_product_blind(st, name, exact) ==
    IF st.exc THEN st
    ELSE LET s1 == Sent(st)
         IN IF Failing(s1) THEN Raise(s1) ELSE Return(s1, None)
pd_search_product(st, name, exact) ==
    IF st.exc THEN st
    ELSE LET s1 == Sent(st)
             items == CrmSearchItems(s1.catalog, name, exact)
         IN IF Failing(s1) THEN Raise(s1)
            ELSE IF items = <<>> THEN Return(s1, None)
            ELSE IF exact THEN Return(s1, Some(items[1]))
            ELSE Return(s1, Some(FuzzyPick(items, name)))

\* CRM server, POST /products: the new product gets the next catalog id.
CrmCreateProduct(st, name, price, currency) ==
    LET p == [id |-> Len(st.catalog) + 1, name |-> name, price |-> price,
              currency |-> currency]
    IN [st EXCEPT !.catalog = Append(@, p), !.created = Append(@, p.id), !.ret = Some(p)]

pd_create_product(st, name, price, currency) ==
    IF st.exc THEN st
    ELSE LET s1 == Sent(st)
             done == CrmCreateProduct(s1, name, price, currency)
         IN IF Failing(s1) THEN Raise(IF s1.commit THEN done ELSE s1)
            ELSE done

pd_find_or_create_product(st, name, price, currency) ==
    Do(pd_search_product(st, name, TRUE), LAMBDA s1 :
       IF s1.exc \/ IsSome(s1.ret) THEN s1
       ELSE Do(pd_search_product(s1, name, FALSE), LAMBDA s2 :
               IF s2.exc \/ IsSome(s2.ret) THEN s2
               ELSE pd_create_product(s2, name, price, currency)))

\* pd_get_deal_products: the listing; an unsuccessful answer is read as no products.
pd_get_deal_products(st) ==
    IF st.exc THEN st
    ELSE LET s1 == Sent(st)
         IN IF Failing(s1) THEN Raise(s1)
            ELSE IF ~s1.listOk THEN Return(s1, <<>>)
            ELSE Return(s1, s1.deal)

\* CRM server, DELETE /deals/{id}/products/{dp}
CrmDeleteDealProduct(st, dp_id) ==
    [st EXCEPT !.deal = SelectSeq(@, LAMBDA e : e.id # dp_id)]

\* pd_delete_deal_product; deleting an entry that is no longer attached answers
\* 404, which raise_for_status raises.  The body of a 2xx answer is returned
\* unread, whatever its success flag says.
pd_delete_deal_product(st, dp_id) ==
    IF st.exc THEN st
    ELSE LET s1 == Sent(st)
             attached == \E k \in DOMAIN s1.deal : s1.deal[k].id = dp_id
             done == CrmDeleteDealProduct(s1, dp_id)
         IN IF Failing(s1) /\ s1.soft THEN Return(s1, None)
            ELSE IF Failing(s1) THEN Raise(IF s1.commit THEN done ELSE s1)
            ELSE IF ~attached THEN Raise(s1)
            ELSE done

\* The request body pd_add_product_to_deal builds: discount and tax are sent
\* only when truthy.
AddProductData(product_id, item_price, quantity, discount, tax) ==
    LET base == [product_id |-> product_id, item_price |-> item_price,
                 quantity |-> quantity]
        disc == IF discount # 0
                THEN [discount |-> discount, discount_type |-> "percentage"]
                ELSE <<>>
        tx == IF tax # 0 THEN [tax |-> tax] ELSE <<>>
    IN base @@ disc @@ tx

\* CRM server, POST /deals/{id}/products: the entry is appended to the deal's
\* list under a fresh id, named after the catalog product, absent fields at the
\* server's defaults (no discount, no tax, billed one time).
CrmAttach(st, data) ==
    LET e == [id |-> st.dpSeq + 1,
              product_id |-> data.product_id,
              name |-> st.catalog[data.product_id].name,
              item_price |-> data.item_price,
              quantity |-> data.quantity,
              discount |-> Get(data, "discount", 0),
              discount_type |-> Get(data, "discount_type", "percentage"),
              tax |-> Get(data, "tax", 0),
              billing_frequency |-> Get(data, "billing_frequency", "one-time")]
    IN [st EXCEPT !.deal = Append(@, e), !.dpSeq = @ + 1, !.ret = Some(e)]

pd_add_product_to_deal(st, product_id, item_price, quantity, discount, tax) ==
    IF st.exc THEN st
    ELSE LET s1 == Sent(st)
             done == CrmAttach(s1, AddProductData(product_id, item_price, quantity,
                                                  discount, tax))
         IN IF Failing(s1) THEN Raise(IF s1.commit THEN done ELSE s1)
            ELSE done

\* The first loop of pd_replace_deal_products: delete every listed entry that
\* has a (truthy) id.
RECURSIVE DeleteExisting(_, _)
DeleteExisting(st, existing) ==
    IF st.exc \/ existing = <<>> THEN st
    ELSE Do(IF Head(existing).id # 0 THEN pd_delete_deal_product(st, Head(existing).id)
            ELSE st,
            LAMBDA s1 : DeleteExisting(s1, Tail(existing)))

\* One turn of the second loop: resolve the catalog product, attach it.
AddOne(st, p) ==
    Do(pd_find_or_create_product(st, p.name, Get(p, "price", 0), Get(p, "currency", "EUR")),
       LAMBDA s1 :
       IF s1.exc THEN s1
       ELSE pd_add_product_to_deal(s1, Val(s1.ret).id, Get(p, "price", 0),
                                   Get(p, "quantity", 1), Get(p, "discount", 0),
                                   Get(p, "tax", 0)))

RECURSIVE AddNew(_, _, _)
AddNew(st, products, added) ==
    IF st.exc THEN st
    ELSE IF products = <<>> THEN Return(st, added)
    ELSE Do(AddOne(st, Head(products)), LAMBDA s1 :
            IF s1.exc THEN s1
            ELSE AddNew(s1, Tail(products), Append(added, Val(s1.ret))))

pd_replace_deal_products(st, products) ==
    Do(pd_get_deal_products(st), LAMBDA s1 :
       IF s1.exc THEN s1
       ELSE Do(DeleteExisting(s1, s1.ret), LAMBDA s2 : AddNew(s2, products, <<>>)))

----------------------------------------------------------------------------
(* Sequential reconciler runs: each pd_replace_deal_products call runs from *)
(* start to finish before the next one begins (one process, blocking I/O).  *)

\* A catalog product as it stands in the CRM.
Product(k, name) == [id |-> k, name |-> name, price |-> 100, currency |-> "EUR"]

\* A deal-product entry attached before the first run.
InitEntry(k, p) ==
    [id |-> k, product_id |-> p.id, name |-> p.name, item_price |-> p.price,
     quantity |-> 1, discount |-> 0, discount_type |-> "percentage", tax |-> 0,
     billing_frequency |-> "one-time"]

InitCatalogs ==
    {[k \in 1..Len(q) |-> Product(k, q[k])] : q \in SeqsUpTo(NamePool, MaxInitEntries)}

InitDeals(cat) ==
    {[k \in 1..Len(q) |-> InitEntry(k, cat[q[k]])] :
        q \in SeqsUpTo(1..Len(cat), MaxInitEntries)}

\* Requests one reconciler run can send: the listing, one delete per listed
\* entry, and two searches, a create and an attach per spec.
MaxCalls(nEntries, nSpecs) == 1 + nEntries + 4 * nSpecs

NoCall == [op |-> "none"]

\* The ERP side and the CRM entities play no part in a behaviour.
ErpIdle ==
    /\ crm = <<>>
    /\ allow = {}
    /\ partners = <<>>
    /\ leads = <<>>
    /\ orders = <<>>
    /\ lines = <<>>
    /\ lineSeq = 0
    /\ variants = <<>>
    /\ currencies = <<>>
    /\ mapping = <<>>

InitReplace ==
    /\ notes = <<>>
    /\ catalog \in InitCatalogs
    /\ dealProducts \in InitDeals(catalog)
    /\ dpSeq = Len(dealProducts)
    /\ runs = 0
    /\ last = NoCall
    /\ procs = <<>>
    /\ ErpIdle

\* What the deal's product list shows of an entry.
EntryView(e) ==
    [name |-> e.name, price |-> e.item_price, quantity |-> e.quantity,
     discount |-> e.discount, tax |-> e.tax]

ListView(l) == [k \in 1..Len(l) |-> EntryView(l[k])]

\* What a spec asks the entry to show.
SpecView(p) ==
    [name |-> p.name, price |-> Get(p, "price", 0), quantity |-> Get(p, "quantity", 1),
     discount |-> Get(p, "discount", 0), tax |-> Get(p, "tax", 0)]

SpecsView(ps) == [k \in 1..Len(ps) |-> SpecView(ps[k])]

\* One whole pd_replace_deal_products(deal, products) call.
ReplaceCall ==
    /\ runs < MaxRuns
    /\ \E products \in SpecLists, listOk \in BOOLEAN, commit \in BOOLEAN :
       \E failAt \in 0..MaxCalls(Len(dealProducts), Len(products)) :
          LET st == pd_replace_deal_products(World(failAt, commit, listOk), products)
          IN /\ catalog' = st.catalog
             /\ dealProducts' = st.deal
             /\ dpSeq' = st.dpSeq
             /\ runs' = runs + 1
             /\ last' = [op |-> "replace", specs |-> products,
                         completed |-> ~st.exc, listOk |-> listOk,
                         before |-> dealProducts, catBefore |-> Len(catalog),
                         prevOp |-> last.op,
                         prevSpecs |-> Get(last, "specs", <<>>),
                         prevCompleted |-> Get(last, "completed", FALSE)]
             /\ UNCHANGED <<notes, procs, crm, allow, erpVars>>

NextReplace == ReplaceCall

SpecReplace == InitReplace /\ [][NextReplace]_vars


----------------------------------------------------------------------------
(* Claims about the sequential reconciler *)

\* The last call was a reconciler run that ran to its end.
ReplaceCompleted == last.op = "replace" /\ last.completed

\* The last two calls were completed reconciler runs with the same specs.
SecondRunOfSame ==
    /\ ReplaceCompleted
    /\ last.prevOp = "replace" /\ last.prevCompleted
    /\ last.prevSpecs = last.specs

\* C1: two consecutive completed runs with the same specs leave the product
\* list a single run leaves (same names, prices, quantities, one entry per
\* spec); the second run adds no duplicate entry and no catalog product.
C1_Idempotent ==
    SecondRunOfSame =>
        /\ ListView(dealProducts) = ListView(last.before)
        /\ Len(dealProducts) = Len(last.specs)
        /\ Len(catalog) = last.catBefore

\* C2: after a completed run no deal-product entry that was attached before
\* the call is still attached.
C2_NoLeftover ==
    ReplaceCompleted =>
        \A k \in DOMAIN dealProducts : \A j \in DOMAIN last.before :
            dealProducts[k].id # last.before[j].id

\* C3: after a completed run the list has exactly one entry per spec, in spec
\* order, entry i carrying spec i's name, price, quantity, discount and tax.
C3_MirrorsSpecs ==
    ReplaceCompleted => ListView(dealProducts) = SpecsView(last.specs)

\* C8: with every invocation atomic, after any sequence of invocations the
\* list is the spec list of the invocation that ran last, whatever the list
\* was at the start and whatever ran before (names, prices, quantities).
NamePriceQty(v) == [name |-> v.name, price |-> v.price, quantity |-> v.quantity]
C8_LastWins ==
    (ReplaceCompleted /\ runs >= 2) =>
        /\ Len(dealProducts) = Len(last.specs)
        /\ \A k \in DOMAIN dealProducts :
              NamePriceQty(EntryView(dealProducts[k])) = NamePriceQty(SpecView(last.specs[k]))

\* C21: a listing of the deal's products that is answered without success makes
\* the run abort with the deal's products and the catalog as they were.
C21_ListingFailureAborts ==
    (last.op = "replace" /\ ~last.listOk) =>
        /\ ~last.completed
        /\ dealProducts = last.before
        /\ Len(catalog) = last.catBefore

\* C23: the catalog product a completed run resolves for a spec, which is the
\* product of the entry it attaches for it, has the spec's name, exactly or up
\* to letter case and surrounding blanks.
C23_SameNameOrNew ==
    ReplaceCompleted =>
        LET kept == Len(dealProducts) - Len(last.specs)
        IN \A k \in DOMAIN last.specs :
              NormName(catalog[dealProducts[kept + k].product_id].name)
                  = NormName(last.specs[k].name)

----------------------------------------------------------------------------
(* One reconciler run and the request it fails at *)

MaxListed == 2    \* most entries on the deal before the run
MaxAborts == 1    \* runs of a behaviour

\* Catalogs and deals of up to MaxListed entries.
ListedCatalogs ==
    {[k \in 1..Len(q) |-> Product(k, q[k])] : q \in SeqsUpTo({NameP1, NameP10}, MaxListed)}
ListedDeals(cat) ==
    {[k \in 1..Len(q) |-> InitEntry(k, cat[q[k]])] :
        q \in SeqsUpTo(1..Len(cat), MaxListed)}

InitAbort ==
    /\ notes = <<>>
    /\ catalog \in ListedCatalogs
    /\ dealProducts \in ListedDeals(catalog)
    /\ dpSeq = Len(dealProducts)
    /\ runs = 0
    /\ last = NoCall
    /\ procs = <<>>
    /\ ErpIdle

\* One whole pd_replace_deal_products(deal, products) call, with the number of
\* requests it sent and the number of the request that failed (0: none).
AbortCall ==
    /\ runs < MaxAborts
    /\ \E products \in SpecLists, listOk \in BOOLEAN,
          outcome \in {"error", "error, applied", "success: false"} :
       \E failAt \in 0..MaxCalls(Len(dealProducts), Len(products)) :
          LET commit == outcome = "error, applied"
              st == pd_replace_deal_products(
                        IF outcome = "success: false" THEN SoftWorld(failAt, listOk)
                        ELSE World(failAt, commit, listOk), products)
          IN /\ catalog' = st.catalog
             /\ dealProducts' = st.deal
             /\ dpSeq' = st.dpSeq
             /\ runs' = runs + 1
             /\ last' = [op |-> "replace", specs |-> products,
                         completed |-> ~st.exc, listOk |-> listOk,
                         outcome |-> outcome, calls |-> st.calls,
                         failed |-> IF failAt \in 1..st.calls THEN failAt ELSE 0,
                         applied |-> failAt \in 1..st.calls /\ commit,
                         before |-> dealProducts, catBefore |-> Len(catalog)]
             /\ UNCHANGED <<notes, procs, crm, allow, erpVars>>

NextAbort == AbortCall

SpecAbort == InitAbort /\ [][NextAbort]_vars

\* The entries attached before the last run that are still attached.
StillAttached ==
    SelectSeq(dealProducts,
              LAMBDA e : \E j \in DOMAIN last.before : last.before[j].id = e.id)

\* How many of the listed entries the last run had deleted when request number
\* n failed: the deletes are the requests 2 .. 1 + Len(before) of a run whose
\* listing showed the entries, and the failing request counts if the server
\* had applied it.
DeletedUpTo(n) ==
    LET listed == IF last.listOk THEN Len(last.before) ELSE 0
        sent == IF n - 2 < listed THEN n - 2 ELSE listed
        done == IF sent < 0 THEN 0 ELSE sent
    IN IF last.applied /\ n \in 2..(1 + listed) THEN done + 1 ELSE done

\* The last run's failing request was one of its deletes.
DeleteFailed ==
    /\ last.op = "replace"
    /\ last.listOk
    /\ last.failed \in 2..(1 + Len(last.before))

\* C22: a run one of whose deletes fails ends in that failure, sends no request
\* after it, and leaves the entries it had deleted deleted.
C22_AbortsAtFailingCall ==
    DeleteFailed =>
        /\ ~last.completed
        /\ last.calls = last.failed
        /\ StillAttached = SubSeq(last.before, DeletedUpTo(last.failed) + 1,
                                  Len(last.before))

----------------------------------------------------------------------------
(* Two reconciler invocations for the same deal in separate processes: each *)
(* request of pd_replace_deal_products is one step, and the steps of the    *)
(* two processes interleave freely.                                         *)

Procs == {1, 2}

\* A process about to call pd_replace_deal_products(deal, products).
ProcStart(products) ==
    [pc |-> "list", specs |-> products, existing |-> <<>>, i |-> 1,
     product |-> None, added |-> <<>>, created |-> <<>>, listed |-> FALSE]

\* The spec lists the two racing invocations are handed.
RaceSpecLists ==
    {<<>>, <<SpecA>>, <<SpecB>>, <<SpecC>>, <<SpecA, SpecA>>, <<SpecA, SpecB>>}

InitRace ==
    /\ notes = <<>>
    /\ catalog \in InitCatalogs
    /\ dealProducts \in InitDeals(catalog)
    /\ dpSeq = Len(dealProducts)
    /\ runs = 0
    /\ last = [op |-> "race", initial |-> Len(dealProducts)]
    /\ procs \in [Procs -> {ProcStart(ps) : ps \in RaceSpecLists}]
    /\ ErpIdle

\* The world as one request of a process sees it.
Here(failAt, commit, listOk) == World(failAt, commit, listOk)

\* Where the code goes when the delete loop has `existing` left to do.
AfterListing(existing, products) ==
    IF existing # <<>> THEN "delete"
    ELSE IF products # <<>> THEN "exact"
    ELSE "done"

SetWorld(st) ==
    /\ catalog' = st.catalog
    /\ dealProducts' = st.deal
    /\ dpSeq' = st.dpSeq
    /\ UNCHANGED <<notes, runs, last, crm, allow, erpVars>>

\* existing = pd_get_deal_products(deal_id)
RList(p) ==
    /\ procs[p].pc = "list"
    /\ \E listOk \in BOOLEAN :
          LET st == pd_get_deal_products(Here(0, FALSE, listOk))
          IN /\ procs' = [procs EXCEPT ![p].existing = st.ret,
                                       ![p].listed = listOk,
                                       ![p].pc = AfterListing(st.ret, procs[p].specs)]
             /\ SetWorld(st)

\* One turn of "for p in existing": the delete request of the next listed entry.
RDelete(p) ==
    /\ procs[p].pc = "delete"
    /\ LET e == Head(procs[p].existing)
           st == IF e.id # 0 THEN pd_delete_deal_product(Here(0, FALSE, TRUE), e.id)
                 ELSE Here(0, FALSE, TRUE)
           rest == Tail(procs[p].existing)
       IN /\ procs' = [procs EXCEPT
                          ![p].existing = rest,
                          ![p].pc = IF st.exc THEN "failed"
                                    ELSE AfterListing(rest, procs[p].specs)]
          /\ SetWorld(st)

\* pd_find_or_create_product, step 1: the exact search.
RExact(p) ==
    /\ procs[p].pc = "exact"
    /\ LET st == pd_search_product(Here(0, FALSE, TRUE), procs[p].specs[procs[p].i].name, TRUE)
       IN /\ procs' = [procs EXCEPT ![p].product = st.ret,
                                    ![p].pc = IF IsSome(st.ret) THEN "attach" ELSE "fuzzy"]
          /\ SetWorld(st)

\* pd_find_or_create_product, step 2: the fuzzy search.
RFuzzy(p) ==
    /\ procs[p].pc = "fuzzy"
    /\ LET st == pd_search_product(Here(0, FALSE, TRUE), procs[p].specs[procs[p].i].name, FALSE)
       IN /\ procs' = [procs EXCEPT ![p].product = st.ret,
                                    ![p].pc = IF IsSome(st.ret) THEN "attach" ELSE "create"]
          /\ SetWorld(st)

\* pd_find_or_create_product, step 3: the create request.
RCreate(p) ==
    /\ procs[p].pc = "create"
    /\ LET sp == procs[p].specs[procs[p].i]
           st == pd_create_product(Here(0, FALSE, TRUE), sp.name, Get(sp, "price", 0),
                                   Get(sp, "currency", "EUR"))
       IN /\ procs' = [procs EXCEPT ![p].product = st.ret,
                                    ![p].created = Append(@, Val(st.ret).id),
                                    ![p].pc = "attach"]
          /\ SetWorld(st)

\* pd_add_product_to_deal for the resolved product, then the next spec.
RAttach(p) ==
    /\ procs[p].pc = "attach"
    /\ LET sp == procs[p].specs[procs[p].i]
           st == pd_add_product_to_deal(Here(0, FALSE, TRUE), Val(procs[p].product).id,
                                        Get(sp, "price", 0), Get(sp, "quantity", 1),
                                        Get(sp, "discount", 0), Get(sp, "tax", 0))
       IN /\ procs' = [procs EXCEPT
                          ![p].added = Append(@, Val(st.ret)),
                          ![p].product = None,
                          ![p].i = @ + 1,
                          ![p].pc = IF procs[p].i < Len(procs[p].specs) THEN "exact"
                                    ELSE "done"]
          /\ SetWorld(st)

\* The request a process is about to send fails (HTTP error, timeout) and the
\* exception ends the invocation; a delete, create or attach may already have
\* been applied by the server.
RFail(p) ==
    /\ procs[p].pc \in {"list", "delete", "exact", "fuzzy", "create", "attach"}
    /\ \E commit \in BOOLEAN :
          LET pr == procs[p]
              w == Here(1, commit, TRUE)
              sp == pr.specs[pr.i]
              st == CASE pr.pc = "list" -> pd_get_deal_products(w)
                      [] pr.pc = "delete" -> pd_delete_deal_product(w, Head(pr.existing).id)
                      [] pr.pc = "exact" -> pd_search_product(w, sp.name, TRUE)
                      [] pr.pc = "fuzzy" -> pd_search_product(w, sp.name, FALSE)
                      [] pr.pc = "create" ->
                            pd_create_product(w, sp.name, Get(sp, "price", 0),
                                              Get(sp, "currency", "EUR"))
                      [] pr.pc = "attach" ->
                            pd_add_product_to_deal(w, Val(pr.product).id,
                                Get(sp, "price", 0), Get(sp, "quantity", 1),
                                Get(sp, "discount", 0), Get(sp, "tax", 0))
          IN /\ procs' = [procs EXCEPT ![p].pc = "failed"]
             /\ SetWorld(st)

NextRace ==
    \E p \in Procs :
        \/ RList(p)
        \/ RDelete(p)
        \/ RExact(p)
        \/ RFuzzy(p)
        \/ RCreate(p)
        \/ RAttach(p)
        \/ RFail(p)

SpecRace == InitRace /\ [][NextRace]_vars

----------------------------------------------------------------------------
(* Claims about racing reconciler invocations *)

BothDone == \A p \in Procs : procs[p].pc = "done"

\* The entries of the deal's list that invocation p attached.
OwnEntries(p) ==
    SelectSeq(dealProducts,
              LAMBDA e : \E k \in DOMAIN procs[p].added : procs[p].added[k].id = e.id)

\* Two catalog products created by the invocations carry the same name.
CreatedTwice ==
    \E p, q \in Procs : \E a \in DOMAIN procs[p].created, b \in DOMAIN procs[q].created :
        /\ procs[p].created[a] # procs[q].created[b]
        /\ catalog[procs[p].created[a]].name = catalog[procs[q].created[b]].name

\* C7 as claimed, in its weakest reading (both listings answered
\* successfully; entries compared by price and quantity only): when the
\* requests of two invocations interleave, after both complete the list is the
\* spec list of one of them and no catalog product was created twice for one
\* name.
PriceQty(v) == [price |-> v.price, quantity |-> v.quantity]
C7_NoDuplicateUnderRace ==
    (BothDone /\ \A p \in Procs : procs[p].listed) =>
        /\ \E p \in Procs :
              /\ Len(dealProducts) = Len(procs[p].specs)
              /\ \A k \in DOMAIN dealProducts :
                    PriceQty(EntryView(dealProducts[k])) = PriceQty(SpecView(procs[p].specs[k]))
        /\ ~CreatedTwice

\* C7 as amended: interleaved invocations can duplicate records across each
\* other, but never within one invocation: an invocation attaches at most one
\* entry per spec, in spec order and with that spec's price and quantity, and
\* creates at most one catalog product per name; after both complete every
\* entry on the deal is a pre-existing one or one an invocation attached.
C7_OncePerInvocation ==
    /\ \A p \in Procs :
          /\ Len(procs[p].added) <= Len(procs[p].specs)
          /\ \A k \in DOMAIN procs[p].added :
                PriceQty(EntryView(procs[p].added[k])) = PriceQty(SpecView(procs[p].specs[k]))
          /\ \A j, k \in DOMAIN procs[p].added :
                j # k => procs[p].added[j].id # procs[p].added[k].id
          /\ \A a, b \in DOMAIN procs[p].created :
                a # b => catalog[procs[p].created[a]].name # catalog[procs[p].created[b]].name
    /\ BothDone =>
          \A k \in DOMAIN dealProducts :
              \/ dealProducts[k].id <= last.initial
              \/ \E p \in Procs : \E j \in DOMAIN procs[p].added :
                    procs[p].added[j] = dealProducts[k]

\* C7 witness: both invocations completed, each has entries of its own on the
\* deal, and the two created a catalog product of the same name.
C7_Witness ==
    /\ BothDone
    /\ \A p \in Procs : OwnEntries(p) # <<>>
    /\ CreatedTwice

----------------------------------------------------------------------------
(* src/pipedrive.py: field accessors and the owner allow-list *)

\* A field of a CRM record as the API serves it: absent (None), a scalar, or
\* an object holding the scalar under one key ("id", "value").
NoneV == [t |-> "none", key |-> "", v |-> 0]
IntV(n) == [t |-> "int", key |-> "", v |-> n]
DictV(k, n) == [t |-> "dict", key |-> k, v |-> n]

\* pd_val: the "value" of an object that has one, else the field itself
\* (None for an absent field, as the callers test it for truth).
pd_val(field) ==
    IF field.t = "dict" /\ field.key = "value" THEN Some(field.v)
    ELSE IF field.t = "int" THEN Some(field.v)
    ELSE None

\* owner.get("id") of an object, the int itself, else nothing decided.
OwnerOf(field) ==
    IF field.t = "dict" THEN [decided |-> TRUE,
                              id |-> IF field.key = "id" THEN Some(field.v) ELSE None]
    ELSE IF field.t = "int" THEN [decided |-> TRUE, id |-> Some(field.v)]
    ELSE [decided |-> FALSE, id |-> None]

\* pd_owner_id: owner_id first, user_id second.
pd_owner_id(obj) ==
    IF OwnerOf(obj.owner_id).decided THEN OwnerOf(obj.owner_id).id
    ELSE IF OwnerOf(obj.user_id).decided THEN OwnerOf(obj.user_id).id
    ELSE None

owner_allowed_everyone(owner_id) == TRUE
owner_allowed(owner_id) ==
    IF allow = {} THEN TRUE
    ELSE IF ~IsSome(owner_id) THEN FALSE
    ELSE Val(owner_id) \in allow

----------------------------------------------------------------------------
(* The collaborators of src/odoo.py: the CRM fetch, the ERP RPC and the    *)
(* mapping store                                                           *)

\* An event of the handler's run, kept for the claims: what was done for which
\* external entity, on which ERP record.
Event(ev, kind, id, rec) == [ev |-> ev, kind |-> kind, id |-> id, rec |-> rec]
Log(st, ev, kind, id, rec) == [st EXCEPT !.log = Append(@, Event(ev, kind, id, rec))]

\* pd_get(path): the CRM record, or the request raises.
pd_get(st, kind, id) ==
    IF st.exc THEN st
    ELSE LET s1 == Sent(st)
         IN IF Failing(s1) THEN Raise(s1) ELSE Return(s1, Some(crm[kind][id]))

\* The field of the world that holds an ERP model's records.
Table(model) ==
    CASE model = "res.partner" -> "partners"
      [] model = "crm.lead" -> "leads"
      [] model = "sale.order" -> "orders"
      [] model = "product.product" -> "variants"
      [] model = "res.currency" -> "currencies"

\* A record satisfies a domain of (field, "=", value) triples.
Matches(rec, domain) == \A f \in DOMAIN domain : rec[f] = domain[f]

\* ERP server, search: the ids of the matching records in id order, at most
\* `limit` of them.
ErpSearch(records, domain, limit) ==
    LET hits == SelectSeq(records, LAMBDA r : Matches(r, domain))
    IN [k \in 1..(IF Len(hits) < limit THEN Len(hits) ELSE limit) |-> hits[k].id]

\* odoo_search / odoo_search_read(fields=["id"])
odoo_search(st, model, domain, limit) ==
    IF st.exc THEN st
    ELSE LET s1 == Sent(st)
         IN IF Failing(s1) THEN Raise(s1)
            ELSE Return(s1, ErpSearch(s1[Table(model)], domain, limit))

\* ERP server, create: the record gets the next id of its model.
ErpCreate(st, model, vals) ==
    LET t == Table(model)
        id == Len(st[t]) + 1
    IN [st EXCEPT ![t] = Append(@, vals @@ [id |-> id]), !.ret = Some(id)]

odoo_create(st, model, vals) ==
    IF st.exc THEN st
    ELSE LET s1 == Sent(st)
             done == ErpCreate(s1, model, vals)
         IN IF Failing(s1) THEN Raise(IF s1.commit THEN done ELSE s1)
            ELSE done

\* ERP server, write: the given fields of the record are overwritten.
ErpWrite(st, model, record_id, vals) ==
    LET t == Table(model)
    IN [st EXCEPT ![t][record_id] = vals @@ @, !.ret = Some(TRUE)]

\* odoo_write; writing to a record that does not exist is an RPC error.
odoo_write(st, model, record_id, vals) ==
    IF st.exc THEN st
    ELSE LET s1 == Sent(st)
             exists == record_id \in DOMAIN s1[Table(model)]
         IN IF Failing(s1)
            THEN Raise(IF s1.commit /\ exists THEN ErpWrite(s1, model, record_id, vals)
                       ELSE s1)
            ELSE IF ~exists THEN Raise(s1)
            ELSE ErpWrite(s1, model, record_id, vals)

\* mapping_get(kind, external_id): the internal id, 0 for None.
mapping_get(st, kind, id) == st.mapping[kind][id]

\* mapping_set(kind, external_id, internal_id): the pair's one mapping is set.
mapping_set(st, kind, id, internal_id) ==
    IF st.exc THEN st
    ELSE Log([st EXCEPT !.mapping[kind][id] = internal_id],
             "mapping_set", kind, id, internal_id)

----------------------------------------------------------------------------
(* src/odoo.py: upsert operations *)

\* The sentinel an upsert returns for a skipped entity.
Skipped == -1

\* Names: a string, or the f"Org {id}" / f"Person {id}" / f"Deal {id}" fallback.
Name(str) == [s |-> str, n |-> 0]
Fallback(prefix, id) == [s |-> prefix, n |-> id]
NameOr(field, prefix, id) == IF field = "" THEN Fallback(prefix, id) ELSE Name(field)

\* The fields an ERP partner carries in the model.
PartnerDefaults ==
    [name |-> Name(""), is_company |-> FALSE, email |-> "", parent_id |-> 0]

\* The fields an ERP opportunity carries in the model.
LeadDefaults ==
    [name |-> Name(""), type |-> "opportunity", partner_id |-> 0, team_id |-> 0,
     active |-> TRUE]

\* odoo_create on behalf of an external entity; the log tells the attempt
\* ("create") from the record the server made ("created"), which a request
\* that fails after the server applied it makes too.
Create(st, kind, id, model, vals) ==
    Do(odoo_create(Log(st, "create", kind, id, 0), model, vals), LAMBDA s1 :
       IF Len(s1[Table(model)]) > Len(st[Table(model)])
       THEN Log(s1, "created", kind, id, Len(s1[Table(model)]))
       ELSE s1)

\* The create path: create the record, persist the mapping, return its id.
CreateAndMap(st, kind, id, model, vals) ==
    Do(Create(st, kind, id, model, vals), LAMBDA made :
       IF made.exc THEN made
       ELSE Return(mapping_set(made, kind, id, Val(made.ret)), made.ret))

\* The mapped path of an upsert: write the current values to the mapped record
\* and return its id.
UpdateMapped_recreates(st, kind, id, model, mapped, vals) ==
    CreateAndMap(st, kind, id, model,
                 vals @@ (IF model = "crm.lead" THEN LeadDefaults ELSE PartnerDefaults))
UpdateMapped(st, kind, id, model, mapped, vals) ==
    Do(odoo_write(Log(st, "write", kind, id, mapped), model, mapped, vals), LAMBDA w :
       IF w.exc THEN w ELSE Return(w, Some(mapped)))

\* The found path: write to the record the natural-key search found, persist
\* the mapping, return its id.
LinkFound_without_mapping(st, kind, id, model, found, vals) ==
    UpdateMapped(st, kind, id, model, found, vals)
LinkFound(st, kind, id, model, found, vals) ==
    Do(odoo_write(Log(st, "write", kind, id, found), model, found, vals), LAMBDA w :
       IF w.exc THEN w
       ELSE Return(mapping_set(w, kind, id, found), Some(found)))

\* The update-or-create tail of upsert_org, behind the gate.
UpsertOrgTail(st, org_id, org) ==
    LET name == NameOr(org.name, "Org ", org_id)
        mapped == mapping_get(st, "org", org_id)
        vals == [name |-> name, is_company |-> TRUE]
    IN IF mapped # 0 THEN UpdateMapped(st, "org", org_id, "res.partner", mapped, vals)
       ELSE Do(odoo_search(Log(st, "search", "org", org_id, 0), "res.partner",
                           [name |-> name, is_company |-> TRUE], 1),
               LAMBDA s2 :
               IF s2.exc THEN s2
               ELSE IF s2.ret # <<>>
               THEN LinkFound(s2, "org", org_id, "res.partner", s2.ret[1], vals)
               ELSE CreateAndMap(s2, "org", org_id, "res.partner", vals @@ PartnerDefaults))

upsert_org(st, org_id) ==
    Do(pd_get(st, "org", org_id), LAMBDA s1 :
       IF s1.exc THEN s1
       ELSE IF ~owner_allowed(pd_owner_id(Val(s1.ret)))
       THEN Return(Log(s1, "skip", "org", org_id, 0), Some(Skipped))
       ELSE UpsertOrgTail(Log(s1, "pass", "org", org_id, 0), org_id, Val(s1.ret)))

\* The first e-mail address of the person record, if any.
FirstEmail(p) == IF p.email # <<>> THEN Some(p.email[1]) ELSE None

\* "if parent_id == -1: parent_id = None": the id a nested upsert returned,
\* null (0) for the sentinel and for no upsert at all.
NullIfSkipped_keeps_sentinel(ret) == IF IsSome(ret) THEN Val(ret) ELSE 0
NullIfSkipped(ret) == IF IsSome(ret) /\ Val(ret) # Skipped THEN Val(ret) ELSE 0

\* upsert_person once the parent organization is resolved (s2.ret: its id, the
\* sentinel, or None).
UpsertPersonRecord(s2, person_id, p) ==
    LET name == NameOr(p.name, "Person ", person_id)
        parent_id == NullIfSkipped(s2.ret)
        email == FirstEmail(p)
        hasEmail == IsSome(email) /\ Val(email) # ""
        mapped == mapping_get(s2, "person", person_id)
        vals == [name |-> name, parent_id |-> parent_id,
                 email |-> IF IsSome(email) THEN Val(email) ELSE ""]
    IN IF mapped # 0
       THEN UpdateMapped(s2, "person", person_id, "res.partner", mapped, vals)
       ELSE Do(IF hasEmail
               THEN odoo_search(Log(s2, "search", "person", person_id, 0), "res.partner",
                                [email |-> Val(email)], 1)
               ELSE Return(s2, <<>>),
               LAMBDA s3 :
               IF s3.exc THEN s3
               ELSE IF hasEmail /\ s3.ret # <<>>
               THEN LinkFound(s3, "person", person_id, "res.partner", s3.ret[1], vals)
               ELSE CreateAndMap(s3, "person", person_id, "res.partner",
                                 vals @@ PartnerDefaults))

\* The part of upsert_person behind the gate: the parent organization first.
UpsertPersonTail(st, person_id, p) ==
    Do(IF IsSome(pd_val(p.org_id)) /\ Val(pd_val(p.org_id)) # 0
       THEN upsert_org(st, Val(pd_val(p.org_id)))
       ELSE Return(st, None),
       LAMBDA s2 : IF s2.exc THEN s2 ELSE UpsertPersonRecord(s2, person_id, p))

upsert_person(st, person_id) ==
    Do(pd_get(st, "person", person_id), LAMBDA s1 :
       IF s1.exc THEN s1
       ELSE IF ~owner_allowed(pd_owner_id(Val(s1.ret)))
       THEN Return(Log(s1, "skip", "person", person_id, 0), Some(Skipped))
       ELSE UpsertPersonTail(Log(s1, "pass", "person", person_id, 0), person_id,
                             Val(s1.ret)))

\* configuration: PIPELINE_MAP, CRM pipeline id -> ERP team id
PIPELINE_MAP == (1 :> 11)

\* find_existing_deal_in_odoo: name + partner first, then the name alone if it
\* is unique.
find_existing_deal_in_odoo_first_of_many(st, deal_id, title, partner_id, team_id) ==
    LET team == IF team_id # 0 THEN [team_id |-> team_id] ELSE <<>>
    IN Do(odoo_search(Log(st, "search", "deal", deal_id, 0), "crm.lead",
                      [type |-> "opportunity", name |-> title] @@ team, 2),
          LAMBDA s2 :
          IF s2.exc THEN s2
          ELSE IF s2.ret # <<>> THEN Return(s2, Some(s2.ret[1]))
          ELSE Return(s2, None))
find_existing_deal_in_odoo(st, deal_id, title, partner_id, team_id) ==
    LET team == IF team_id # 0 THEN [team_id |-> team_id] ELSE <<>>
    IN Do(IF partner_id # 0
          THEN odoo_search(Log(st, "search", "deal", deal_id, 0), "crm.lead",
                           [type |-> "opportunity", name |-> title,
                            partner_id |-> partner_id] @@ team, 1)
          ELSE Return(st, <<>>),
          LAMBDA s1 :
          IF s1.exc THEN s1
          ELSE IF s1.ret # <<>> THEN Return(s1, Some(s1.ret[1]))
          ELSE Do(odoo_search(Log(s1, "search", "deal", deal_id, 0), "crm.lead",
                              [type |-> "opportunity", name |-> title] @@ team, 2),
                  LAMBDA s2 :
                  IF s2.exc THEN s2
                  ELSE IF Len(s2.ret) = 1 THEN Return(s2, Some(s2.ret[1]))
                  ELSE Return(s2, None)))

\* d.get("user_id") as upsert_deal reads the owner.
DealOwner(d) ==
    IF d.user_id.t = "dict" THEN (IF d.user_id.key = "id" THEN Some(d.user_id.v) ELSE None)
    ELSE IF d.user_id.t = "int" THEN Some(d.user_id.v)
    ELSE None

\* The three gates of upsert_deal, in the code's order.
DealGated_ignores_deleted(d) ==
    \/ ~IsSome(d.pipeline_id)
    \/ Val(d.pipeline_id) \notin DOMAIN PIPELINE_MAP
    \/ (allow # {} /\ (~IsSome(DealOwner(d)) \/ Val(DealOwner(d)) \notin allow))
DealGated(d) ==
    \/ d.status = "deleted"
    \/ ~IsSome(d.pipeline_id)
    \/ Val(d.pipeline_id) \notin DOMAIN PIPELINE_MAP
    \/ (allow # {} /\ (~IsSome(DealOwner(d)) \/ Val(DealOwner(d)) \notin allow))

\* upsert_deal once the partner is resolved (s2.ret: its id, the sentinel, or
\* None).
UpsertDealRecord(s2, deal_id, d) ==
    LET title == NameOr(d.title, "Deal ", deal_id)
        odoo_team_id == PIPELINE_MAP[Val(d.pipeline_id)]
        partner_id == NullIfSkipped(s2.ret)
        mapped == mapping_get(s2, "deal", deal_id)
        vals == [name |-> title, type |-> "opportunity", partner_id |-> partner_id,
                 team_id |-> odoo_team_id]
    IN IF mapped # 0 THEN UpdateMapped(s2, "deal", deal_id, "crm.lead", mapped, vals)
       ELSE Do(find_existing_deal_in_odoo(s2, deal_id, title, partner_id, odoo_team_id),
               LAMBDA s3 :
               IF s3.exc THEN s3
               ELSE IF IsSome(s3.ret)
               THEN LinkFound(s3, "deal", deal_id, "crm.lead", Val(s3.ret), vals)
               ELSE CreateAndMap(s3, "deal", deal_id, "crm.lead", vals @@ LeadDefaults))

\* The part of upsert_deal behind the gates: the person, else the
\* organization, is upserted first.
UpsertDealTail(st, deal_id, d) ==
    Do(IF IsSome(pd_val(d.person_id)) /\ Val(pd_val(d.person_id)) # 0
       THEN upsert_person(st, Val(pd_val(d.person_id)))
       ELSE IF IsSome(pd_val(d.org_id)) /\ Val(pd_val(d.org_id)) # 0
       THEN upsert_org(st, Val(pd_val(d.org_id)))
       ELSE Return(st, None),
       LAMBDA s2 : IF s2.exc THEN s2 ELSE UpsertDealRecord(s2, deal_id, d))

upsert_deal(st, deal_id) ==
    Do(pd_get(st, "deal", deal_id), LAMBDA s1 :
       IF s1.exc THEN s1
       ELSE IF DealGated(Val(s1.ret))
       THEN Return(Log(s1, "skip", "deal", deal_id, 0), Some(Skipped))
       ELSE UpsertDealTail(Log(s1, "pass", "deal", deal_id, 0), deal_id, Val(s1.ret)))

----------------------------------------------------------------------------
(* Upsert calls, one after the other (one process, blocking I/O)           *)

Kinds == {"org", "person", "deal"}

\* The external ids of the entities the CRM holds, per kind.
ExtIds == {1}

\* configuration: a non-empty GERMANY_USER_IDS.  Owner 7 is on it, owner 9 is
\* not.
GERMANY_USER_IDS == {7}

OrgOwners ==
    {[owner_id |-> DictV("id", 7), user_id |-> NoneV],
     [owner_id |-> IntV(9), user_id |-> IntV(7)],
     [owner_id |-> NoneV, user_id |-> NoneV]}

PersonOwners ==
    {[owner_id |-> NoneV, user_id |-> IntV(7)],
     [owner_id |-> DictV("id", 9), user_id |-> NoneV]}

OrgRecords ==
    {o @@ [name |-> n] : o \in OrgOwners, n \in {"", "Acme"}}

PersonRecords ==
    {o @@ [name |-> "Ann", org_id |-> g, email |-> e] :
        o \in PersonOwners, g \in {NoneV, DictV("value", 1)}, e \in {<<>>, <<"a@x">>}}

Links == {[person_id |-> a, org_id |-> b] : a, b \in {NoneV, DictV("value", 1)}}

\* Deals that pass the gates of upsert_deal, and deals that one gate stops.
OpenDeal ==
    [title |-> "Deal A", status |-> "open", pipeline_id |-> Some(1),
     user_id |-> DictV("id", 7)]
StoppedDeals ==
    {[OpenDeal EXCEPT !.status = "deleted"],
     [OpenDeal EXCEPT !.pipeline_id = Some(5)],
     [OpenDeal EXCEPT !.pipeline_id = None],
     [OpenDeal EXCEPT !.user_id = IntV(9)],
     [OpenDeal EXCEPT !.user_id = NoneV]}
\* The CRM records of a behaviour: a deal that passes the gates with every
\* person and organization, or a stopped deal linked to an insider's person and
\* organization.
LinkedToBoth == [person_id |-> DictV("value", 1), org_id |-> DictV("value", 1)]
SomeOrg == [owner_id |-> DictV("id", 7), user_id |-> NoneV, name |-> "Acme"]
SomePerson ==
    [owner_id |-> NoneV, user_id |-> IntV(7), name |-> "Ann",
     org_id |-> DictV("value", 1), email |-> <<"a@x">>]
CrmStates ==
    {[org |-> [i \in ExtIds |-> o], person |-> [i \in ExtIds |-> p],
      deal |-> [i \in ExtIds |-> OpenDeal @@ l]] :
        o \in OrgRecords, p \in PersonRecords, l \in Links}
    \cup {[org |-> [i \in ExtIds |-> SomeOrg], person |-> [i \in ExtIds |-> SomePerson],
           deal |-> [i \in ExtIds |-> d @@ LinkedToBoth]] : d \in StoppedDeals}

\* What the ERP holds before the first call: records of earlier syncs or made
\* by hand.
Acme(k) == [id |-> k, name |-> Name("Acme"), is_company |-> TRUE, email |-> "a@x",
            parent_id |-> 0]
OldLead(k) == [id |-> k, name |-> Name("Deal A"), type |-> "opportunity",
               partner_id |-> 0, team_id |-> 11, active |-> TRUE]
InitPartners == {<<>>, <<Acme(1)>>, <<Acme(1), Acme(2)>>}
InitLeads == {<<>>, <<OldLead(1)>>, <<OldLead(1), OldLead(2)>>}

\* The mapping store before the first call: empty, or every kind mapped by an
\* earlier sync to the newest record of its model.
InitMappings(ps, ls) ==
    {[k \in Kinds |-> [i \in ExtIds |-> 0]]}
    \cup {[k \in Kinds |-> [i \in ExtIds |-> IF k = "deal" THEN Len(ls) ELSE Len(ps)]]}

InitUpsert ==
    /\ notes = <<>>
    /\ catalog = <<>>
    /\ dealProducts = <<>>
    /\ dpSeq = 0
    /\ runs = 0
    /\ procs = <<>>
    /\ orders = <<>>
    /\ lines = <<>>
    /\ lineSeq = 0
    /\ variants = <<>>
    /\ currencies = <<>>
    /\ allow = GERMANY_USER_IDS
    /\ crm \in CrmStates
    /\ partners \in InitPartners
    /\ leads \in InitLeads
    /\ mapping \in InitMappings(partners, leads)
    /\ last = [op |-> "none", made |-> <<>>]

\* The requests the longest upsert of a kind sends: an organization's fetch,
\* search and write or create; a person's fetch, its organization's upsert,
\* search and write or create; a deal's fetch, its person's upsert, two
\* searches and write or create.
UpsertRequests(kind) ==
    CASE kind = "org" -> 3
      [] kind = "person" -> 1 + 3 + 2
      [] kind = "deal" -> 1 + (1 + 3 + 2) + 3

\* The records the server made, among the events of a run.
Made(log) == SelectSeq(log, LAMBDA e : e.ev = "created")

UpsertDone(kind, id, st) ==
    /\ partners' = st.partners
    /\ leads' = st.leads
    /\ mapping' = st.mapping
    /\ runs' = runs + 1
    /\ last' = [op |-> "upsert", kind |-> kind, id |-> id,
                exc |-> st.exc, ret |-> st.ret, log |-> st.log,
                before |-> [partners |-> partners, leads |-> leads, mapping |-> mapping],
                made |-> last.made \o Made(st.log)]
    /\ UNCHANGED <<crmVars, notes, procs, crm, allow, orders, lines, lineSeq, variants,
                   currencies>>

Outcomes(kind) == {[failAt |-> 0, commit |-> FALSE]}
                  \cup [failAt : 1..UpsertRequests(kind), commit : BOOLEAN]

UpsertOrgCall ==
    /\ runs < MaxRuns
    /\ \E id \in ExtIds, o \in Outcomes("org") :
          UpsertDone("org", id, upsert_org(World(o.failAt, o.commit, TRUE), id))

UpsertPersonCall ==
    /\ runs < MaxRuns
    /\ \E id \in ExtIds, o \in Outcomes("person") :
          UpsertDone("person", id, upsert_person(World(o.failAt, o.commit, TRUE), id))

UpsertDealCall ==
    /\ runs < MaxRuns
    /\ \E id \in ExtIds, o \in Outcomes("deal") :
          UpsertDone("deal", id, upsert_deal(World(o.failAt, o.commit, TRUE), id))

NextUpsert == UpsertOrgCall \/ UpsertPersonCall \/ UpsertDealCall

SpecUpsert == InitUpsert /\ [][NextUpsert]_vars

----------------------------------------------------------------------------
(* Claims about the upsert engine *)

\* The last call was an upsert of entity (kind, id) itself.
UpsertOf(kind, id) == last.op = "upsert" /\ last.kind = kind /\ last.id = id

\* The events of the last call that concern entity (kind, id).
EventsOf(kind, id) ==
    {last.log[k] : k \in {j \in DOMAIN last.log :
                            last.log[j].kind = kind /\ last.log[j].id = id}}

\* The owner the gate of a kind looks at is absent or not on the allow-list.
OwnerOutside(kind, rec) ==
    LET o == IF kind = "deal" THEN DealOwner(rec) ELSE pd_owner_id(rec)
    IN ~IsSome(o) \/ Val(o) \notin allow

\* Upserting the entity stops at a gate (the owner's, or a deal's status or
\* pipeline).
Stopped(kind, id) ==
    IF kind = "deal" THEN DealGated(crm[kind][id])
    ELSE OwnerOutside(kind, crm[kind][id])

\* The ERP table of a kind's records, and the name the CRM record has now.
TableOf(kind) == IF kind = "deal" THEN leads ELSE partners
CurrentName(kind, id) ==
    CASE kind = "org" -> NameOr(crm[kind][id].name, "Org ", id)
      [] kind = "person" -> NameOr(crm[kind][id].name, "Person ", id)
      [] kind = "deal" -> NameOr(crm[kind][id].title, "Deal ", id)

\* Entity (kind, id) was mapped when the last call began; the record it was
\* mapped to.
MappedBefore(kind, id) == last.op = "upsert" /\ last.before.mapping[kind][id] # 0
X(kind, id) == last.before.mapping[kind][id]

\* No search, create or mapping_set for a mapped entity, and its mapping stays.
NoResearch(kind, id) ==
    /\ \A e \in EventsOf(kind, id) :
          \/ e.ev \in {"pass", "skip"}
          \/ e.ev = "write" /\ e.rec = X(kind, id)
    /\ mapping[kind][id] = X(kind, id)

\* The completed upsert took the update path: wrote the current values to X
\* and returned X.
TookUpdatePath(kind, id) ==
    /\ last.ret = Some(X(kind, id))
    /\ \E e \in EventsOf(kind, id) : e.ev = "write" /\ e.rec = X(kind, id)
    /\ TableOf(kind)[X(kind, id)].name = CurrentName(kind, id)

\* C4 as claimed: once (kind, id) is mapped to X, every later upsert of it
\* neither searches nor creates nor remaps, and goes through the update path:
\* it writes the current values to X and returns X.
C4_AlwaysUpdatePath ==
    \A kind \in Kinds, id \in ExtIds :
        MappedBefore(kind, id) =>
            /\ NoResearch(kind, id)
            /\ (UpsertOf(kind, id) /\ ~last.exc) => TookUpdatePath(kind, id)

\* C4 as amended: once (kind, id) is mapped to X, no later upsert of it
\* searches, creates or remaps; an upsert of it that passes the gates and
\* completes writes the current values to X and returns X, whatever the
\* natural-key search would find; one that a gate stops returns the sentinel
\* and writes nothing.
C4_MappedStaysMapped ==
    \A kind \in Kinds, id \in ExtIds :
        MappedBefore(kind, id) =>
            /\ NoResearch(kind, id)
            /\ (UpsertOf(kind, id) /\ ~last.exc) =>
                  IF Stopped(kind, id)
                  THEN /\ last.ret = Some(Skipped)
                       /\ \A e \in EventsOf(kind, id) : e.ev # "write"
                  ELSE TookUpdatePath(kind, id)

\* C4 witness: a completed upsert of a mapped organization wrote to and
\* returned X although the search by name finds another record.
C4_Witness ==
    \E id \in ExtIds :
        /\ UpsertOf("org", id) /\ ~last.exc
        /\ MappedBefore("org", id)
        /\ last.ret = Some(X("org", id))
        /\ ErpSearch(last.before.partners,
                     [name |-> CurrentName("org", id), is_company |-> TRUE], 1)
              \notin {<<>>, <<X("org", id)>>}

\* C5: with a non-empty allow-list, an upsert of an entity whose owner is
\* absent or not on the list returns the sentinel and performs no create, no
\* write and no mapping_set, whatever the entity's mapping state; nor does a
\* nested upsert of such an entity.
C5_OutsiderSkipped ==
    (last.op = "upsert" /\ allow # {}) =>
        \A kind \in Kinds, id \in ExtIds :
            OwnerOutside(kind, crm[kind][id]) =>
                /\ \A e \in EventsOf(kind, id) : e.ev = "skip"
                /\ mapping[kind][id] = last.before.mapping[kind][id]
                /\ UpsertOf(kind, id) =>
                      /\ ~last.exc => last.ret = Some(Skipped)
                      /\ partners = last.before.partners
                      /\ leads = last.before.leads
                      /\ mapping = last.before.mapping

\* C5 witness: an upsert of a mapped entity owned by an outsider returned the
\* sentinel.
C5_Witness ==
    \E kind \in Kinds, id \in ExtIds :
        /\ UpsertOf(kind, id) /\ allow # {}
        /\ OwnerOutside(kind, crm[kind][id])
        /\ MappedBefore(kind, id)
        /\ last.ret = Some(Skipped)

\* The records the upserts have made so far for entity (kind, id).
MadeFor(kind, id) ==
    {k \in DOMAIN last.made : last.made[k].kind = kind /\ last.made[k].id = id}

\* C6: across any sequence of upserts of one (kind, id), a call retried after
\* a transport failure included, at most one ERP record is ever created for it
\* (the mapping store holds one id per pair by construction).
C6_AtMostOneRecord ==
    \A kind \in Kinds, id \in ExtIds : Cardinality(MadeFor(kind, id)) <= 1

\* The record the natural-key search of a kind finds in the ERP as it was
\* before the call, if any: an organization by name among the companies, a
\* person by its first e-mail address, a deal by name, partner and team, else
\* by name and team if exactly one opportunity has them.
NaturalKeyHit(kind, id, partner_id) ==
    CASE kind = "org" ->
            ErpSearch(last.before.partners,
                      [name |-> CurrentName(kind, id), is_company |-> TRUE], 1)
      [] kind = "person" ->
            LET email == FirstEmail(crm[kind][id])
            IN IF IsSome(email) /\ Val(email) # ""
               THEN ErpSearch(last.before.partners, [email |-> Val(email)], 1)
               ELSE <<>>
      [] kind = "deal" ->
            LET key == [type |-> "opportunity", name |-> CurrentName(kind, id),
                        team_id |-> PIPELINE_MAP[Val(crm[kind][id].pipeline_id)]]
                best == IF partner_id # 0
                        THEN ErpSearch(last.before.leads,
                                       key @@ [partner_id |-> partner_id], 1)
                        ELSE <<>>
                named == ErpSearch(last.before.leads, key, 2)
            IN IF best # <<>> THEN best
               ELSE IF Len(named) = 1 THEN named ELSE <<>>

\* The records of a kind's ERP model before the last call.
TableBefore(kind) == IF kind = "deal" THEN last.before.leads ELSE last.before.partners

\* The last call was a completed upsert of (kind, id), which was unmapped when
\* the call began and passes the gates.
UnmappedUpserted(kind, id) ==
    /\ UpsertOf(kind, id) /\ ~last.exc
    /\ last.before.mapping[kind][id] = 0
    /\ ~Stopped(kind, id)

\* C11: an upsert of an unmapped entity that passes the gates writes to the
\* record the search by the kind's natural key finds, or creates a new record
\* if it finds none; either way the mapping is the returned id when it returns.
C11_SearchThenLinkOrCreate ==
    \A kind \in Kinds, id \in ExtIds :
        UnmappedUpserted(kind, id) =>
            /\ IsSome(last.ret)
            /\ LET r == Val(last.ret)
                   partner_id == IF kind = "deal" /\ r \in DOMAIN leads
                                 THEN leads[r].partner_id ELSE 0
                   hit == NaturalKeyHit(kind, id, partner_id)
               IN /\ mapping[kind][id] = r
                  /\ r \in DOMAIN TableOf(kind)
                  /\ TableOf(kind)[r].name = CurrentName(kind, id)
                  /\ IF hit # <<>>
                     THEN /\ r = hit[1]
                          /\ \E e \in EventsOf(kind, id) : e.ev = "write" /\ e.rec = r
                          /\ \A e \in EventsOf(kind, id) : e.ev # "created"
                     ELSE /\ r \notin DOMAIN TableBefore(kind)
                          /\ \E e \in EventsOf(kind, id) : e.ev = "created" /\ e.rec = r

\* C11 witness: a completed upsert of an unmapped deal found the one
\* opportunity of its name, wrote to it and mapped the deal to it.
C11_Witness ==
    \E id \in ExtIds :
        /\ UnmappedUpserted("deal", id)
        /\ Val(last.ret) \in DOMAIN last.before.leads
        /\ mapping["deal"][id] = Val(last.ret)

\* The deal is marked deleted, or its pipeline is absent from the pipeline
\* table.
DeletedOrUnmappedPipeline(d) ==
    \/ d.status = "deleted"
    \/ d.pipeline_id = None
    \/ Val(d.pipeline_id) \notin DOMAIN PIPELINE_MAP

\* C12: upsert_deal for a deal that is marked deleted, or whose pipeline is
\* not in the pipeline table, returns the sentinel once the deal is fetched: it
\* raises nothing, upserts no person or organization, creates and writes
\* nothing in the ERP and sets no mapping.
C12_DeletedOrUnmappedSkipped ==
    \A id \in ExtIds :
        (UpsertOf("deal", id) /\ DeletedOrUnmappedPipeline(crm["deal"][id])) =>
            /\ partners = last.before.partners
            /\ leads = last.before.leads
            /\ mapping = last.before.mapping
            /\ IF last.exc THEN last.log = <<>>
               ELSE /\ last.ret = Some(Skipped)
                    /\ last.log = <<Event("skip", "deal", id, 0)>>

\* C12 witness: a deleted deal that is linked to a person and an organization,
\* whose owner is on the allow-list, was skipped.
C12_Witness ==
    \E id \in ExtIds :
        /\ UpsertOf("deal", id) /\ ~last.exc
        /\ crm["deal"][id].status = "deleted"
        /\ ~OwnerOutside("deal", crm["deal"][id])
        /\ pd_val(crm["deal"][id].person_id) # None
        /\ last.ret = Some(Skipped)

\* The opportunities of the deal's name and team in the ERP as it was before
\* the last call (at most two are asked for), and among them the one of the
\* partner, if any.
NamedBefore(id) ==
    ErpSearch(last.before.leads,
              [type |-> "opportunity", name |-> CurrentName("deal", id),
               team_id |-> PIPELINE_MAP[Val(crm["deal"][id].pipeline_id)]], 2)
NamedOfPartnerBefore(id, partner_id) ==
    IF partner_id = 0 THEN <<>>
    ELSE ErpSearch(last.before.leads,
                   [type |-> "opportunity", name |-> CurrentName("deal", id),
                    team_id |-> PIPELINE_MAP[Val(crm["deal"][id].pipeline_id)],
                    partner_id |-> partner_id], 1)

\* C24: a completed upsert of an unmapped deal for which no opportunity of its
\* name and partner exists binds the deal to the opportunity of its name if
\* there is exactly one; with none or with two or more it creates a new
\* record and leaves every opportunity of before as it was.
C24_NameAloneOnlyIfUnique ==
    \A id \in ExtIds :
        UnmappedUpserted("deal", id) =>
            LET r == mapping["deal"][id]
            IN (r \in DOMAIN leads /\ NamedOfPartnerBefore(id, leads[r].partner_id) = <<>>) =>
                  IF Len(NamedBefore(id)) = 1
                  THEN r = NamedBefore(id)[1]
                  ELSE /\ r \notin DOMAIN last.before.leads
                       /\ SubSeq(leads, 1, Len(last.before.leads)) = last.before.leads

\* C24 witness: two opportunities had the deal's name; the upsert created a
\* third record and mapped the deal to it.
C24_Witness ==
    \E id \in ExtIds :
        /\ UnmappedUpserted("deal", id)
        /\ Len(NamedBefore(id)) = 2
        /\ mapping["deal"][id] = Len(last.before.leads) + 1
        /\ Len(leads) = Len(last.before.leads) + 1

\* The entity whose upsert the upsert of (kind, id) nests, if any: a person's
\* organization; a deal's person, else its organization.
Nested(kind, id) ==
    LET rec == crm[kind][id]
        linked(v) == IsSome(pd_val(v)) /\ Val(pd_val(v)) # 0
    IN CASE kind = "person" /\ linked(rec.org_id) ->
                Some([kind |-> "org", id |-> Val(pd_val(rec.org_id))])
         [] kind = "deal" /\ linked(rec.person_id) ->
                Some([kind |-> "person", id |-> Val(pd_val(rec.person_id))])
         [] kind = "deal" /\ ~linked(rec.person_id) /\ linked(rec.org_id) ->
                Some([kind |-> "org", id |-> Val(pd_val(rec.org_id))])
         [] OTHER -> None

\* The relationship field of the record a completed upsert returned.
RelationOf(kind, r) == IF kind = "deal" THEN leads[r].partner_id ELSE partners[r].parent_id

\* The last call was a completed upsert of (kind, id) that passed its gates and
\* whose nested upsert was stopped at its gate.
NestedSkipped(kind, id) ==
    /\ UpsertOf(kind, id) /\ ~last.exc
    /\ ~Stopped(kind, id)
    /\ IsSome(Nested(kind, id))
    /\ Stopped(Val(Nested(kind, id)).kind, Val(Nested(kind, id)).id)

\* C25: the sentinel is never an id: no mapping holds it, no partner has it as
\* parent_id, no opportunity as partner_id; and an upsert whose nested upsert
\* returned it leaves the relationship of its record null.
C25_SentinelNeverAnId ==
    /\ \A kind \in Kinds, id \in ExtIds : mapping[kind][id] # Skipped
    /\ \A k \in DOMAIN partners : partners[k].parent_id # Skipped
    /\ \A k \in DOMAIN leads : leads[k].partner_id # Skipped
    /\ \A kind \in {"person", "deal"}, id \in ExtIds :
          NestedSkipped(kind, id) =>
              /\ Val(last.ret) \in DOMAIN TableOf(kind)
              /\ RelationOf(kind, Val(last.ret)) = 0

\* C25 witness: a deal of an insider whose person belongs to an outsider was
\* upserted; the opportunity has no partner.
C25_Witness ==
    \E id \in ExtIds :
        /\ NestedSkipped("deal", id)
        /\ Val(Nested("deal", id)).kind = "person"
        /\ leads[Val(last.ret)].partner_id = 0

----------------------------------------------------------------------------
(* src/odoo.py: the quotation (sale order) made from the deal's products *)

\* config.BP_PHASE_PRODUCT_MAP: phase keyword -> product.template id, in the
\* order the keywords are tried.
BP_PHASE_PRODUCT_MAP == <<[key |-> <<"p", "1", "0">>, tmpl |-> 110]>>

\* The "Others" template of titles that match no phase keyword.
FallbackTemplate == 127

\* _get_odoo_product_tmpl_for_title: the template of the first keyword that the
\* lower-cased title contains.
_get_odoo_product_tmpl_for_title(title) ==
    LET hits == SelectSeq(BP_PHASE_PRODUCT_MAP,
                          LAMBDA e : Contains(Lower(title), e.key))
    IN IF hits = <<>> THEN None ELSE Some(hits[1].tmpl)

\* _find_product_variant_id: the first variant of the template, if any.
_find_product_variant_id(st, template_id) ==
    odoo_search(st, "product.product", [product_tmpl_id |-> template_id], 1)

\* odoo_search_read(fields=[field]): the field of the matching records.
odoo_search_read(st, model, domain, field, limit) ==
    IF st.exc THEN st
    ELSE LET s1 == Sent(st)
             hits == SelectSeq(s1[Table(model)], LAMBDA r : Matches(r, domain))
             n == IF Len(hits) < limit THEN Len(hits) ELSE limit
         IN IF Failing(s1) THEN Raise(s1)
            ELSE Return(s1, [k \in 1..n |-> hits[k][field]])

\* odoo_execute("sale.order.line", "search"): the ids of the order's lines.
odoo_execute_search(st, order_id) ==
    IF st.exc THEN st
    ELSE LET s1 == Sent(st)
             hits == SelectSeq(s1.lines, LAMBDA l : l.order_id = order_id)
         IN IF Failing(s1) THEN Raise(s1)
            ELSE Return(s1, [k \in 1..Len(hits) |-> hits[k].id])

\* ERP server, unlink of order lines.
ErpUnlink(st, ids) ==
    [st EXCEPT !.lines = SelectSeq(@, LAMBDA l : \A k \in DOMAIN ids : l.id # ids[k])]

\* odoo_execute("sale.order.line", "unlink")
odoo_execute_unlink(st, ids) ==
    IF st.exc THEN st
    ELSE LET s1 == Sent(st)
             done == ErpUnlink(s1, ids)
         IN IF Failing(s1) THEN Raise(IF s1.commit THEN done ELSE s1) ELSE done

\* ERP server, create of an order line under a fresh id.
ErpCreateLine(st, vals) ==
    [st EXCEPT !.lines = Append(@, vals @@ [id |-> st.lineSeq + 1]),
               !.lineSeq = @ + 1]

\* odoo_execute("sale.order.line", "create")
odoo_execute_create(st, vals) ==
    IF st.exc THEN st
    ELSE LET s1 == Sent(st)
             done == ErpCreateLine(s1, vals)
         IN IF Failing(s1) THEN Raise(IF s1.commit THEN done ELSE s1) ELSE done

\* round(item_price * (1 - discount / 100), 2), prices in cents.
NetPrice(item_price, discount) == (item_price * (100 - discount) + 50) \div 100

\* The template a deal product's line is booked on.
TemplateOf(name) ==
    LET t == _get_odoo_product_tmpl_for_title(name)
    IN IF IsSome(t) /\ Val(t) # 0 THEN Val(t) ELSE FallbackTemplate

\* The values of the order line made for a deal product.
LineVals(order_id, variant_id, p) ==
    [order_id |-> order_id, product_id |-> variant_id, name |-> Get(p, "name", <<>>),
     price_unit |-> NetPrice(Get(p, "item_price", 0), Get(p, "discount", 0)),
     product_uom_qty |-> Get(p, "quantity", 1)]

\* The loop over the deal's products: one line per product whose template has
\* a variant, the variant looked up once per template.
RECURSIVE AddLines_stops_at_no_variant(_, _, _, _)
AddLines_stops_at_no_variant(st, order_id, pd_products, variant_cache) ==
    IF st.exc \/ pd_products = <<>> THEN st
    ELSE LET p == Head(pd_products)
             tmpl_id == TemplateOf(Get(p, "name", <<>>))
         IN Do(_find_product_variant_id(st, tmpl_id), LAMBDA s1 :
               IF s1.exc THEN s1
               ELSE IF s1.ret = <<>> THEN Log(s1, "no_variant", "deal", 0, tmpl_id)
               ELSE Do(odoo_execute_create(s1, LineVals(order_id, s1.ret[1], p)),
                       LAMBDA s2 : AddLines_stops_at_no_variant(s2, order_id,
                                                                Tail(pd_products),
                                                                variant_cache)))
RECURSIVE AddLines(_, _, _, _)
AddLines(st, order_id, pd_products, variant_cache) ==
    IF st.exc \/ pd_products = <<>> THEN st
    ELSE LET p == Head(pd_products)
             tmpl_id == TemplateOf(Get(p, "name", <<>>))
         IN Do(IF tmpl_id \in DOMAIN variant_cache
               THEN Return(st, variant_cache[tmpl_id])
               ELSE _find_product_variant_id(st, tmpl_id), LAMBDA s1 :
               IF s1.exc THEN s1
               ELSE LET cache == (tmpl_id :> s1.ret) @@ variant_cache
                    IN IF s1.ret = <<>>
                       THEN AddLines(Log(s1, "no_variant", "deal", 0, tmpl_id),
                                     order_id, Tail(pd_products), cache)
                       ELSE Do(odoo_execute_create(s1, LineVals(order_id, s1.ret[1], p)),
                               LAMBDA s2 : AddLines(s2, order_id, Tail(pd_products), cache)))

\* The branch for an opportunity that has no order yet: create one.
CreateOrder(st, odoo_lead_id, partner_id, eur_ids) ==
    Do(odoo_create(st, "sale.order",
                   [partner_id |-> partner_id, opportunity_id |-> odoo_lead_id,
                    state |-> "draft",
                    currency_id |-> IF eur_ids # <<>> THEN eur_ids[1] ELSE 0]),
       LAMBDA s1 : IF s1.exc THEN s1
                   ELSE Log(s1, "order_created", "deal", 0, Val(s1.ret)))

\* The branch for an opportunity that has an order: unlink its lines, set its
\* currency.
UpdateOrder(st, order_id, eur_ids) ==
    Do(odoo_execute_search(st, order_id), LAMBDA s1 :
       IF s1.exc THEN s1
       ELSE Do(IF s1.ret # <<>> THEN odoo_execute_unlink(s1, s1.ret) ELSE s1, LAMBDA s2 :
               IF s2.exc THEN s2
               ELSE Do(IF eur_ids # <<>>
                       THEN odoo_write(s2, "sale.order", order_id,
                                       [currency_id |-> eur_ids[1]])
                       ELSE s2, LAMBDA s3 :
                       IF s3.exc THEN s3
                       ELSE Return(Log(s3, "order_found", "deal", 0, order_id),
                                   Some(order_id)))))

\* Find or create the sale.order of the opportunity; its id is returned.
QuoteOrder_always_creates(st, odoo_lead_id, partner_id, eur_ids) ==
    CreateOrder(st, odoo_lead_id, partner_id, eur_ids)
QuoteOrder(st, odoo_lead_id, partner_id, eur_ids) ==
    Do(odoo_search_read(st, "sale.order", [opportunity_id |-> odoo_lead_id], "id", 1),
       LAMBDA s1 :
       IF s1.exc THEN s1
       ELSE IF s1.ret # <<>> THEN UpdateOrder(s1, s1.ret[1], eur_ids)
       ELSE CreateOrder(s1, odoo_lead_id, partner_id, eur_ids))

\* upsert_deal_quotation behind its first two early returns: the lead's
\* partner, the currency, the order and its lines.
QuoteForLead(st, odoo_lead_id, pd_products) ==
    Do(odoo_search_read(st, "crm.lead", [id |-> odoo_lead_id], "partner_id", 1),
       LAMBDA s1 :
       IF s1.exc THEN s1
       ELSE IF s1.ret = <<>> \/ s1.ret[1] = 0
       THEN Return(Log(s1, "no_partner", "deal", 0, odoo_lead_id), None)
       ELSE Do(odoo_search(s1, "res.currency", [name |-> "EUR"], 1), LAMBDA s2 :
               IF s2.exc THEN s2
               ELSE Do(QuoteOrder(s2, odoo_lead_id, s1.ret[1], s2.ret), LAMBDA s3 :
                       IF s3.exc THEN s3
                       ELSE Do(AddLines(s3, Val(s3.ret), pd_products, <<>>),
                               LAMBDA s4 : IF s4.exc THEN s4 ELSE Return(s4, None)))))

upsert_deal_quotation_unchecked(st, pd_deal_id) ==
    Do(pd_get_deal_products(st), LAMBDA s1 :
       IF s1.exc THEN s1
       ELSE IF s1.ret = <<>>
       THEN Return(Log(s1, "no_products", "deal", pd_deal_id, 0), None)
       ELSE QuoteForLead(s1, pd_deal_id, s1.ret))
upsert_deal_quotation(st, pd_deal_id) ==
    LET odoo_lead_id == mapping_get(st, "deal", pd_deal_id)
    IN IF odoo_lead_id = 0
       THEN Return(Log(st, "no_mapping", "deal", pd_deal_id, 0), None)
       ELSE Do(pd_get_deal_products(st), LAMBDA s1 :
               IF s1.exc THEN s1
               ELSE IF s1.ret = <<>>
               THEN Return(Log(s1, "no_products", "deal", pd_deal_id, 0), None)
               ELSE QuoteForLead(s1, odoo_lead_id, s1.ret))

----------------------------------------------------------------------------
(* The quotation of one deal, while the deal's products change *)

MaxQuoteSteps == 3   \* handler invocations per behaviour of the quotation

\* The deal whose quotation is kept.
QuotedDeal == 1

QuoteCatalog == <<Product(1, NameP1), Product(2, NameP10)>>

\* The opportunity of the deal, with and without a customer.
QuoteLead(partner_id) ==
    [id |-> 1, name |-> Name("Deal A"), type |-> "opportunity",
     partner_id |-> partner_id, team_id |-> 11, active |-> TRUE]

\* The variants the ERP has: of both templates, of one, of none.
Variant(k, tmpl) == [id |-> k, product_tmpl_id |-> tmpl]
InitVariants ==
    {<<>>, <<Variant(1, FallbackTemplate)>>, <<Variant(1, 110)>>,
     <<Variant(1, 110), Variant(2, FallbackTemplate)>>}

InitQuote ==
    /\ notes = <<>>
    /\ catalog = QuoteCatalog
    /\ dealProducts \in InitDeals(catalog)
    /\ dpSeq = Len(dealProducts)
    /\ runs = 0
    /\ procs = <<>>
    /\ crm = <<>>
    /\ allow = {}
    /\ partners = <<Acme(1)>>
    /\ leads \in {<<QuoteLead(0)>>, <<QuoteLead(1)>>}
    /\ orders = <<>>
    /\ lines = <<>>
    /\ lineSeq = 0
    /\ variants \in InitVariants
    /\ currencies \in {<<>>, <<[id |-> 1, name |-> "EUR"]>>}
    /\ mapping \in {[k \in Kinds |-> [i \in ExtIds |->
                        IF k = "deal" /\ i = QuotedDeal THEN m ELSE 0]] : m \in 0..1}
    /\ last = NoCall

\* Requests the longest quotation run sends: the listing, the lead, the
\* currency, the order, its lines' search, unlink and the currency write, and
\* a variant lookup and a line per product.
QuoteRequests(nProducts) == 7 + 2 * nProducts

\* One whole upsert_deal_quotation(uid, deal) call.
QuoteCall ==
    /\ runs < MaxQuoteSteps
    /\ \E listOk \in BOOLEAN, commit \in BOOLEAN :
       \E failAt \in 0..QuoteRequests(Len(dealProducts)) :
          LET st == upsert_deal_quotation(World(failAt, commit, listOk), QuotedDeal)
          IN \* a failAt beyond the requests the run sends is the run without failure
             /\ (failAt = 0 \/ st.exc)
             /\ orders' = st.orders
             /\ lines' = st.lines
             /\ lineSeq' = st.lineSeq
             /\ mapping' = st.mapping
             /\ runs' = runs + 1
             /\ last' = [op |-> "quote", exc |-> st.exc, listOk |-> listOk,
                         log |-> st.log, calls |-> st.calls,
                         before |-> [orders |-> orders, lines |-> lines,
                                     mapping |-> mapping]]
             /\ UNCHANGED <<crmVars, notes, procs, crm, allow, partners, leads, variants,
                            currencies>>

\* One pd_add_product_to_deal call: a product is attached to the deal.
AttachCall ==
    /\ runs < MaxQuoteSteps
    /\ \E product_id \in DOMAIN catalog, p \in {SpecA, SpecB} :
          LET st == pd_add_product_to_deal(World(0, FALSE, TRUE), product_id, p.price,
                                           p.quantity, p.discount, p.tax)
          IN /\ dealProducts' = st.deal
             /\ dpSeq' = st.dpSeq
             /\ runs' = runs + 1
             /\ last' = [op |-> "attach"]
             /\ UNCHANGED <<catalog, notes, procs, crm, allow, erpVars>>

\* One pd_delete_deal_product call: an entry is taken off the deal.
DetachCall ==
    /\ runs < MaxQuoteSteps
    /\ \E k \in DOMAIN dealProducts :
          LET st == pd_delete_deal_product(World(0, FALSE, TRUE), dealProducts[k].id)
          IN /\ dealProducts' = st.deal
             /\ dpSeq' = st.dpSeq
             /\ runs' = runs + 1
             /\ last' = [op |-> "detach"]
             /\ UNCHANGED <<catalog, notes, procs, crm, allow, erpVars>>

NextQuote == QuoteCall \/ AttachCall \/ DetachCall

SpecQuote == InitQuote /\ [][NextQuote]_vars

----------------------------------------------------------------------------
(* Claims about the quotation *)

\* The opportunity the quoted deal is mapped to (0: none).
QuotedLead == mapping["deal"][QuotedDeal]

\* The orders that reference the opportunity.
OrdersOf(os, lead_id) == {k \in DOMAIN os : os[k].opportunity_id = lead_id}

\* The last call was a quotation call for the mapped deal that completed.
QuoteCompleted == last.op = "quote" /\ ~last.exc /\ QuotedLead # 0

\* C9: after any sequence of upsert_deal_quotation calls for a mapped deal, at
\* most one sale order references the deal's opportunity; a call that finds
\* the order of an earlier call creates none.
C9_OneOrderPerDeal ==
    QuotedLead # 0 =>
        /\ Cardinality(OrdersOf(orders, QuotedLead)) <= 1
        /\ (last.op = "quote" /\ OrdersOf(last.before.orders, QuotedLead) # {})
              => orders = last.before.orders

\* C9 witness: a completed call updated the order an earlier call had made.
C9_Witness ==
    /\ QuoteCompleted
    /\ \E k \in DOMAIN last.log : last.log[k].ev = "order_found"
    /\ Cardinality(OrdersOf(orders, QuotedLead)) = 1
    /\ lines # <<>>

\* The lines of the order of the opportunity, as (name, unit price, quantity).
LinesOf(ls, os, lead_id) ==
    LET mine == SelectSeq(ls, LAMBDA l : l.order_id \in OrdersOf(os, lead_id))
    IN [k \in DOMAIN mine |-> [name |-> mine[k].name, price |-> mine[k].price_unit,
                               quantity |-> mine[k].product_uom_qty]]

\* The lines the deal's product list asks for: one per product whose template
\* has a variant, in the list's order.
HasVariant(name) ==
    \E k \in DOMAIN variants : variants[k].product_tmpl_id = TemplateOf(name)
WantedLines(ps) ==
    LET bookable == SelectSeq(ps, LAMBDA p : HasVariant(p.name))
    IN [k \in DOMAIN bookable |->
          [name |-> bookable[k].name,
           price |-> NetPrice(bookable[k].item_price, bookable[k].discount),
           quantity |-> bookable[k].quantity]]

\* A line an earlier call wrote is still on the order of the opportunity.
StaleLine ==
    \E k \in DOMAIN lines, j \in DOMAIN last.before.lines :
        /\ lines[k].id = last.before.lines[j].id
        /\ lines[k].order_id \in OrdersOf(orders, QuotedLead)

\* C10: every completed upsert_deal_quotation call for a mapped deal wipes and
\* rewrites the lines of the deal's order from the deal's current product list,
\* whatever the list is: no line written by an earlier call remains on the
\* order, and its lines are those of the current list.  Stated for the calls
\* whose listing the CRM answered successfully and for deals that have an order.
C10_WipesAndRewrites ==
    (QuoteCompleted /\ last.listOk /\ OrdersOf(orders, QuotedLead) # {}) =>
        /\ ~StaleLine
        /\ LinesOf(lines, orders, QuotedLead) = WantedLines(dealProducts)

\* The last call got as far as the order of the opportunity: it found or
\* created it, and went through the deal's products.
OrderReached ==
    \E k \in DOMAIN last.log : last.log[k].ev \in {"order_found", "order_created"}

\* The products of the deal whose template has no variant.
Unbookable == SelectSeq(dealProducts, LAMBDA p : ~HasVariant(p.name))

\* C28: a completed call that reached the order while a product of the deal
\* had a template without a variant skipped that product's line and no other:
\* the order's lines are those of the products whose template has a variant,
\* in the order of the list, and one skip is logged per product without one.
C28_OnlyThatLineSkipped ==
    (QuoteCompleted /\ last.listOk /\ OrderReached /\ Unbookable # <<>>) =>
        /\ LinesOf(lines, orders, QuotedLead) = WantedLines(dealProducts)
        /\ Len(SelectSeq(last.log, LAMBDA e : e.ev = "no_variant")) = Len(Unbookable)

\* C28 witness: the first product of the deal had no variant, a later one had;
\* the call completed and the order has the later one's line.
C28_Witness ==
    /\ QuoteCompleted /\ last.listOk /\ OrderReached
    /\ Len(dealProducts) >= 2
    /\ ~HasVariant(dealProducts[1].name)
    /\ HasVariant(dealProducts[2].name)
    /\ LinesOf(lines, orders, QuotedLead) # <<>>

\* C19: upsert_deal_quotation for a deal that has no mapping is a no-op: it
\* sends no request, creates, updates and deletes no sale order and no order
\* line, and leaves the mapping store as it was.
C19_UnmappedIsNoop ==
    (last.op = "quote" /\ last.before.mapping["deal"][QuotedDeal] = 0) =>
        /\ ~last.exc
        /\ last.calls = 0
        /\ orders = last.before.orders
        /\ lines = last.before.lines
        /\ lineSeq = Len(lines)
        /\ mapping = last.before.mapping

\* C19 witness: the call was made for an unmapped deal that has products and
\* whose number is the id of an opportunity with a customer.
C19_Witness ==
    /\ last.op = "quote"
    /\ last.before.mapping["deal"][QuotedDeal] = 0
    /\ dealProducts # <<>>
    /\ QuotedDeal \in DOMAIN leads /\ leads[QuotedDeal].partner_id # 0
    /\ \E k \in DOMAIN variants : variants[k].product_tmpl_id = FallbackTemplate

----------------------------------------------------------------------------
(* src/betterproposals.py: the proposal parser *)

\* html.unescape on one character; "&amp;" stands for the entity as a whole.
Unescape(c) == IF c = "&amp;" THEN "&" ELSE c

\* re.sub(r"<[^>]+>", "", text): every "<", one or more characters other than
\* ">", and the ">" that follows them, is dropped.
RECURSIVE StripTags(_)
StripTags(s) ==
    IF s = <<>> THEN <<>>
    ELSE LET closes == {k \in 2..Len(s) : s[k] = ">"}
             close == CHOOSE k \in closes : \A j \in closes : k <= j
         IN IF Head(s) = "<" /\ closes # {} /\ close > 2
            THEN StripTags(SubSeq(s, close + 1, Len(s)))
            ELSE <<Head(s)>> \o StripTags(Tail(s))

\* _strip_html: entities decoded, tags removed, surrounding blanks stripped.
_strip_html(text) == Strip(StripTags([k \in DOMAIN text |-> Unescape(text[k])]))

\* BP_TO_PD_BILLING.get(label); "None" stands for Python's None.
BP_TO_PD_BILLING(label) ==
    CASE label = "One Time Payment" -> "one-time"
      [] label = "Monthly Payment" -> "monthly"
      [] label = "Quarterly Payment" -> "quarterly"
      [] label = "Annual Payment" -> "annually"
      [] OTHER -> "None"

\* list.count
Count(seq, v) == Cardinality({k \in DOMAIN seq : seq[k] = v})

\* The most frequent element of a sequence, the one seen first among equals:
\* Counter(seq).most_common(1)[0][0].
MostCommon(seq) ==
    LET best == CHOOSE k \in DOMAIN seq :
                   /\ \A j \in DOMAIN seq : Count(seq, seq[j]) <= Count(seq, seq[k])
                   /\ \A j \in 1..(k - 1) : Count(seq, seq[j]) < Count(seq, seq[k])
    IN seq[best]

\* _map_billing_frequency
_map_billing_frequency(recurring_types) ==
    IF recurring_types = <<>> THEN "None"
    ELSE BP_TO_PD_BILLING(MostCommon(recurring_types))

\* The slot of a float with a whole value in CPython's eight-slot set table:
\* hash(x) & 7.  A set of up to four such floats in different slots is iterated
\* in slot order, whatever the order they were added in.
SetSlot(v) == v % 8

\* max(set(discount_pcts), key=discount_pcts.count): max keeps the first of the
\* most frequent values in the set's iteration order.
MaxByCount(discount_pcts) ==
    LET values == {discount_pcts[k] : k \in DOMAIN discount_pcts}
        top == {v \in values : \A w \in values :
                                   Count(discount_pcts, w) <= Count(discount_pcts, v)}
    IN CHOOSE v \in top : \A w \in top : SetSlot(v) <= SetSlot(w)

\* _round_50 on an amount in cents: (val * 2).quantize(Decimal("1"),
\* rounding=ROUND_HALF_UP) / 2; ROUND_HALF_UP rounds a tie away from zero.
_round_50_down(val) == (val \div 50) * 50
_round_50(val) ==
    LET doubled == 2 * val
        mag == IF doubled < 0 THEN -doubled ELSE doubled
        whole == (mag + 50) \div 100
    IN (IF doubled < 0 THEN -whole ELSE whole) * 50

\* table_gross: the exact (decimal) sum of the line costs, in cents.
RECURSIVE SumCost(_)
SumCost(items) == IF items = <<>> THEN 0 ELSE Head(items).Cost + SumCost(Tail(items))

\* The item is kept in the block: not optional, or selected.
Kept_always(item) == TRUE
Kept(item) == ~item.Optional \/ item.Selected

\* What one table contributes: its block, if it has a title and a kept item,
\* and its excluded items, if it has a title.
\* A field of a JSON object that, where a number is read, holds text that is
\* not a number ("abc", "", null): int(), float() and Decimal() raise on it.
Unreadable(obj, field) == field \in Get(obj, "Malformed", {})

\* The item as the loop reads it: item.get(field, default) for every field.
ReadItem(item) ==
    item @@ [Label |-> <<>>, Optional |-> FALSE, Selected |-> FALSE, Quantity |-> 1,
             UnitCost |-> 0, Cost |-> 0, Discount |-> FALSE, DiscountAmount |-> 0,
             RecurringType |-> ""]

\* Reading the item raises: int(Quantity), Decimal(str(UnitCost)),
\* Decimal(str(Cost)), and float(DiscountAmount) if Discount is truthy.
ItemRaises(item) ==
    \/ Unreadable(item, "Quantity")
    \/ Unreadable(item, "UnitCost")
    \/ Unreadable(item, "Cost")
    \/ ReadItem(item).Discount /\ Unreadable(item, "DiscountAmount")

\* bp_parse_line_items raises: int(float(TaxAmount)), or an item of a table
\* that has a title.
ProposalRaises(proposal) ==
    \/ Unreadable(proposal, "TaxAmount")
    \/ \E t \in DOMAIN Get(proposal, "PriceTables", <<>>) :
          LET table == proposal.PriceTables[t]
          IN /\ _strip_html(table.Title) # <<>>
             /\ \E k \in DOMAIN table.Items : ItemRaises(table.Items[k])

ParseTable(table, currency, tax_pct) ==
    LET table_title == _strip_html(table.Title)
        items == [k \in DOMAIN table.Items |-> ReadItem(table.Items[k])]
        kept == SelectSeq(items, Kept)
        left == SelectSeq(items, LAMBDA i : ~Kept(i))
        discounted == SelectSeq(items, LAMBDA i : i.Discount)
        discount_pcts == [k \in DOMAIN discounted |-> discounted[k].DiscountAmount]
        table_gross == SumCost(kept)
        table_items == [k \in DOMAIN kept |->
                          [name |-> _strip_html(kept[k].Label), price |-> kept[k].UnitCost,
                           quantity |-> kept[k].Quantity, cost |-> kept[k].Cost,
                           optional |-> kept[k].Optional,
                           recurring_type |-> kept[k].RecurringType]]
        table_excluded == [k \in DOMAIN left |->
                             [name |-> _strip_html(left[k].Label), price |-> left[k].Cost,
                              recurring_type |-> left[k].RecurringType]]
        gross_rounded == _round_50(table_gross)
        discount_pct == IF discount_pcts # <<>> THEN MaxByCount(discount_pcts) ELSE 0
        block == [name |-> table_title, price |-> gross_rounded, quantity |-> 1,
                  currency |-> currency, tax |-> tax_pct, discount |-> discount_pct,
                  discount_type |-> "percentage",
                  billing_frequency |->
                      _map_billing_frequency([k \in DOMAIN kept |-> kept[k].RecurringType]),
                  net_price |-> IF discount_pcts # <<>>
                                THEN NetPrice(gross_rounded, discount_pct)
                                ELSE gross_rounded,
                  items |-> table_items]
    IN IF table_title = <<>> THEN [included |-> <<>>, excluded |-> <<>>]
       ELSE [included |-> IF table_items # <<>> THEN <<block>> ELSE <<>>,
             excluded |-> table_excluded]

\* The loop of bp_parse_line_items over the tables.
RECURSIVE ParseTables(_, _, _)
ParseTables(tables, currency, tax_pct) ==
    IF tables = <<>> THEN [included |-> <<>>, excluded |-> <<>>]
    ELSE LET first == ParseTable(Head(tables), currency, tax_pct)
             rest == ParseTables(Tail(tables), currency, tax_pct)
         IN [included |-> first.included \o rest.included,
             excluded |-> first.excluded \o rest.excluded]

\* bp_parse_line_items: (included, excluded); amounts in cents.
bp_parse_line_items(proposal) ==
    IF ProposalRaises(proposal)
    THEN [included |-> <<>>, excluded |-> <<>>, exc |-> TRUE]
    ELSE ParseTables(Get(proposal, "PriceTables", <<>>),
                     Get(proposal, "CurrencyCode", "EUR"), Get(proposal, "TaxAmount", 0))
         @@ [exc |-> FALSE]

----------------------------------------------------------------------------
(* The parser applied to proposals *)

MaxItems == 3    \* most items of a price table

\* A price-table item; Cost is the line's total in cents.
Item(optional, selected, cost, discount, recurring) ==
    [Label |-> <<"<", "i", ">", "x", " ">>, Optional |-> optional, Selected |-> selected,
     Quantity |-> 1, UnitCost |-> cost, Cost |-> cost,
     Discount |-> discount # 0, DiscountAmount |-> discount, RecurringType |-> recurring]

\* Items that differ in cost, in discount, and in selection and cadence.
CostItems ==
    {Item(FALSE, FALSE, c, 0, "Monthly Payment") : c \in {0, 1, 24, 25, 26, 50, 1200}}
DiscountItems ==
    {Item(o, FALSE, 5000, d, "One Time Payment") : o \in BOOLEAN, d \in {0, 10, 20}}
SelectionItems ==
    {Item(f[1], f[2], 5000, 0, r) :
        f \in {<<FALSE, FALSE>>, <<TRUE, TRUE>>, <<TRUE, FALSE>>},
        r \in {"Monthly Payment", "One Time Payment", ""}}

\* A title, a title in markup, markup only, a blank.
TitlePool ==
    {NameP1, <<"<", "b", ">", "P", "1", "0", "<", "/", "b", ">">>,
     <<"<", "p", ">", "<", "/", "p", ">">>, <<" ">>}

Tables ==
    {[Title |-> t, Items |-> i] :
        t \in TitlePool,
        i \in SeqsUpTo(CostItems, MaxItems) \cup SeqsUpTo(DiscountItems, MaxItems)
              \cup SeqsUpTo(SelectionItems, MaxItems)}

\* Tables of one item, for the proposals of two tables.
SmallTables ==
    {[Title |-> t, Items |-> <<i>>] :
        t \in TitlePool,
        i \in {Item(FALSE, FALSE, 5000, 0, "Monthly Payment"),
               Item(TRUE, FALSE, 1200, 0, "One Time Payment")}}

Proposal(tables) == [CurrencyCode |-> "EUR", TaxAmount |-> 19, PriceTables |-> tables]

\* The numeric fields of an item.
NumericFields == {"UnitCost", "Cost", "Quantity", "DiscountAmount"}

\* A discounted item one of whose numeric fields is missing, or is not a
\* number.
Without(item, field) == [f \in DOMAIN item \ {field} |-> item[f]]
FlawedItems ==
    LET item == Item(FALSE, FALSE, 5000, 10, "Monthly Payment")
    IN {Without(item, f) : f \in NumericFields}
       \cup {item @@ [Malformed |-> {f}] : f \in NumericFields}

\* Proposals with a flawed item in the first or the second of two tables, or
\* with a tax amount that is not a number.
FlawedProposals ==
    LET good == [Title |-> NameP10,
                 Items |-> <<Item(FALSE, FALSE, 1200, 0, "One Time Payment")>>]
    IN {Proposal(<<[Title |-> t, Items |-> <<i>>], good>>) :
            t \in {NameP1, <<" ">>}, i \in FlawedItems}
       \cup {Proposal(<<good, [Title |-> NameP1, Items |-> <<i>>]>>) : i \in FlawedItems}
       \cup {Proposal(<<good, good>>) @@ [Malformed |-> {"TaxAmount"}]}

Proposals ==
    {Proposal(<<t>>) : t \in Tables}
    \cup {Proposal(<<t, u>>) : t, u \in SmallTables}
    \cup {[CurrencyCode |-> "EUR"]}
    \cup FlawedProposals

\* The CRM and the ERP play no part in a parse.
InitParse ==
    /\ last \in {[op |-> "proposal", proposal |-> p] : p \in Proposals}
    /\ catalog = <<>>
    /\ dealProducts = <<>>
    /\ dpSeq = 0
    /\ notes = <<>>
    /\ runs = 0
    /\ procs = <<>>
    /\ ErpIdle

\* One bp_parse_line_items(proposal) call.
ParseCall ==
    /\ last.op = "proposal"
    /\ LET parsed == bp_parse_line_items(last.proposal)
       IN last' = [op |-> "parsed", proposal |-> last.proposal, exc |-> parsed.exc,
                   included |-> parsed.included, excluded |-> parsed.excluded]
    /\ UNCHANGED <<crmVars, notes, runs, procs, crm, allow, erpVars>>

NextParse == ParseCall

SpecParse == InitParse /\ [][NextParse]_vars

----------------------------------------------------------------------------
(* Claims about the parser *)

Parsed == last.op = "parsed"
TablesOf(proposal) == Get(proposal, "PriceTables", <<>>)

\* The table has items and all of them are optional and unselected.
AllUnselected(table) ==
    /\ table.Items # <<>>
    /\ \A k \in DOMAIN table.Items : table.Items[k].Optional /\ ~table.Items[k].Selected

\* An item as the excluded output lists it.
ExcludedView(item) ==
    [name |-> _strip_html(item.Label), price |-> item.Cost,
     recurring_type |-> item.RecurringType]

\* No included block comes from table k: the blocks are no more than the other
\* tables, and each block has the title of one of those.
NotIncluded(tables, unselected) ==
    /\ Len(last.included) <= Len(tables) - Cardinality(unselected)
    /\ \A b \in DOMAIN last.included :
          \E k \in DOMAIN tables \ unselected :
              _strip_html(tables[k].Title) = last.included[b].name

\* Every item of table k is in the excluded output, as often as it is in the
\* table.
AllExcluded(table) ==
    \A k \in DOMAIN table.Items :
        Count(last.excluded, ExcludedView(table.Items[k]))
            >= Count([j \in DOMAIN table.Items |-> ExcludedView(table.Items[j])],
                     ExcludedView(table.Items[k]))

\* C14 as claimed: a price table all of whose items are optional and unselected
\* never appears in the included output, and every one of its items appears in
\* the excluded output.
C14_UnselectedTableExcluded ==
    Parsed =>
        LET tables == TablesOf(last.proposal)
            unselected == {k \in DOMAIN tables : AllUnselected(tables[k])}
        IN /\ NotIncluded(tables, unselected)
           /\ \A k \in unselected : AllExcluded(tables[k])

\* C14 as amended: a price table all of whose items are optional and unselected
\* never appears in the included output; if its title is not empty once markup
\* and blanks are stripped, every one of its items appears in the excluded
\* output, and if its title is empty, none does on its account.
C14_TitledUnselectedTableExcluded ==
    Parsed =>
        LET tables == TablesOf(last.proposal)
            unselected == {k \in DOMAIN tables : AllUnselected(tables[k])}
            titled == {k \in DOMAIN tables : _strip_html(tables[k].Title) # <<>>}
        IN /\ NotIncluded(tables, unselected)
           /\ \A k \in unselected \cap titled : AllExcluded(tables[k])
           /\ titled = {} => last.excluded = <<>>

\* C14 witness: a table with a title in markup whose items are all optional
\* and unselected was parsed next to a table that has an included item.
C14_Witness ==
    /\ Parsed
    /\ \E k \in DOMAIN TablesOf(last.proposal) :
          /\ AllUnselected(TablesOf(last.proposal)[k])
          /\ _strip_html(TablesOf(last.proposal)[k].Title) # <<>>
          /\ Head(TablesOf(last.proposal)[k].Title) = "<"
    /\ last.included # <<>>
    /\ last.excluded # <<>>

\* The discount percentages recorded in a table, in item order.
DiscountsOf(table) ==
    LET discounted == SelectSeq(table.Items, LAMBDA i : i.Discount)
    IN [k \in DOMAIN discounted |-> discounted[k].DiscountAmount]

\* The proposal has one table and the parser made a block of it.
OneBlock == Parsed /\ Len(TablesOf(last.proposal)) = 1 /\ Len(last.included) = 1

\* C15: the block discount is the most frequent discount percentage of the
\* block; of equally frequent percentages it is the one that comes first in
\* item order.
C15_ModeFirstSeen ==
    (OneBlock /\ DiscountsOf(TablesOf(last.proposal)[1]) # <<>>) =>
        last.included[1].discount = MostCommon(DiscountsOf(TablesOf(last.proposal)[1]))

\* The discount percentages recorded on the included items of a table.
IncludedDiscountsOf(table) ==
    LET discounted == SelectSeq(table.Items, LAMBDA i : Kept(i) /\ i.Discount)
    IN {discounted[k].DiscountAmount : k \in DOMAIN discounted}

\* C26: the block discount is one of the percentages recorded on the block's
\* included items, and zero if none of them records a discount.
C26_IncludedDiscountsOnly ==
    OneBlock =>
        LET recorded == IncludedDiscountsOf(TablesOf(last.proposal)[1])
        IN IF recorded = {} THEN last.included[1].discount = 0
           ELSE last.included[1].discount \in recorded

\* The proposal with every numeric field that is missing or not a number set
\* to zero.
ZeroedItem(item) ==
    [f \in (DOMAIN item \cup NumericFields) \ {"Malformed"} |->
        IF f \in NumericFields /\ (f \notin DOMAIN item \/ Unreadable(item, f)) THEN 0
        ELSE item[f]]
ZeroedTable(table) ==
    [Title |-> table.Title,
     Items |-> [k \in DOMAIN table.Items |-> ZeroedItem(table.Items[k])]]
Zeroed(proposal) ==
    [CurrencyCode |-> proposal.CurrencyCode,
     TaxAmount |-> IF Unreadable(proposal, "TaxAmount") THEN 0 ELSE proposal.TaxAmount,
     PriceTables |-> [t \in DOMAIN proposal.PriceTables |->
                        ZeroedTable(proposal.PriceTables[t])]]

\* C27: a proposal with a numeric field that is missing or not a number parses
\* without an exception to what it parses to with that field at zero.
C27_FlawedFieldIsZero ==
    (Parsed /\ last.proposal \in FlawedProposals) =>
        /\ ~last.exc
        /\ last.included = bp_parse_line_items(Zeroed(last.proposal)).included
        /\ last.excluded = bp_parse_line_items(Zeroed(last.proposal)).excluded

\* C16: the block gross price is the multiple of 0.50 nearest to the sum X of
\* the included line costs, an exact midpoint rounded up.
C16_NearestHalfUnit ==
    OneBlock =>
        LET x == SumCost(SelectSeq(TablesOf(last.proposal)[1].Items, Kept))
            price == last.included[1].price
        IN /\ price % 50 = 0
           /\ price - x <= 25
           /\ x - price < 25

\* C16 witness: three costs that sum to 12.25 gave the price 12.50.
C16_Witness ==
    /\ OneBlock
    /\ Len(TablesOf(last.proposal)[1].Items) = 3
    /\ SumCost(SelectSeq(TablesOf(last.proposal)[1].Items, Kept)) = 1225
    /\ last.included[1].price = 1250

----------------------------------------------------------------------------
(* src/betterproposals.py: the audit note and the sync of a proposal *)

\* A number below 10^width, written with leading zeros.
Pad(n, width) ==
    IF width = 3 /\ n < 10 THEN "00" \o ToString(n)
    ELSE IF (width = 3 /\ n < 100) \/ (width = 2 /\ n < 10) THEN "0" \o ToString(n)
    ELSE ToString(n)

\* The "," grouping of format(price, ",.2f") on the whole units.
RECURSIVE Grouped(_)
Grouped(n) ==
    IF n < 1000 THEN ToString(n) ELSE Grouped(n \div 1000) \o "," \o Pad(n % 1000, 3)

\* The currency sign U+20AC.
Euro == "(euro)"

\* _format_price of an amount in cents.
_format_price(price, currency) ==
    LET amount == Grouped(price \div 100) \o "." \o Pad(price % 100, 2)
    IN IF currency = "EUR" THEN Euro \o amount ELSE amount \o " " \o currency

\* RECURRING_LABELS.get(label, "")
RECURRING_LABELS(label) ==
    CASE label = "One Time Payment" -> "one-time"
      [] label = "Monthly Payment" -> "/month"
      [] label = "Quarterly Payment" -> "/quarter"
      [] label = "Annual Payment" -> "/year"
      [] OTHER -> ""

\* A line of the note: what it is, the name it shows, and its text.
NoteLine(kind, name, text) == [kind |-> kind, name |-> name, text |-> text]

\* The lines _build_note writes for one included block.
BlockLines(block, currency) ==
    LET net_str == _format_price(block.net_price, currency)
        head == NoteLine("block", block.name,
                         IF block.discount # 0
                         THEN net_str \o " (" \o ToString(block.discount) \o "% discount)"
                         ELSE net_str)
        billing == IF block.billing_frequency \in {"monthly", "quarterly", "annually"}
                   THEN <<NoteLine("billing", <<>>, block.billing_frequency)>>
                   ELSE <<>>
        items == [k \in DOMAIN block.items |->
                    NoteLine("item", block.items[k].name,
                             _format_price(block.items[k].cost, currency)
                             \o RECURRING_LABELS(block.items[k].recurring_type)
                             \o (IF block.items[k].optional THEN " (optional)" ELSE ""))]
    IN <<head>> \o billing \o items \o <<NoteLine("blank", <<>>, "")>>

RECURSIVE AllBlockLines(_, _)
AllBlockLines(included, currency) ==
    IF included = <<>> THEN <<>>
    ELSE BlockLines(Head(included), currency) \o AllBlockLines(Tail(included), currency)

RECURSIVE TotalNet(_)
TotalNet(included) ==
    IF included = <<>> THEN 0 ELSE Head(included).net_price + TotalNet(Tail(included))

\* _build_note: the note as its sequence of lines.
_build_note(event_type, included, excluded, currency) ==
    <<NoteLine("header", <<>>, IF event_type = "" THEN "sync" ELSE event_type),
      NoteLine("blank", <<>>, "")>>
    \o AllBlockLines(included, currency)
    \o <<NoteLine("total", <<>>, _format_price(TotalNet(included), currency))>>
    \o (IF excluded = <<>> THEN <<>>
        ELSE <<NoteLine("not selected", <<>>, "")>>
             \o [k \in DOMAIN excluded |->
                   NoteLine("excluded", excluded[k].name,
                            _format_price(excluded[k].price, currency)
                            \o RECURRING_LABELS(excluded[k].recurring_type))])

\* bp_get_proposal: the proposal document, or the lookup raises.
bp_get_proposal(st, proposal) ==
    IF st.exc THEN st
    ELSE LET s1 == Sent(st)
         IN IF Failing(s1) THEN Raise(s1) ELSE Return(s1, Some(proposal))

\* pd_add_note_to_deal: POST /notes.
pd_add_note_to_deal(st, content) ==
    IF st.exc THEN st
    ELSE LET s1 == Sent(st)
             done == [s1 EXCEPT !.notes = Append(@, content)]
         IN IF Failing(s1) THEN Raise(IF s1.commit THEN done ELSE s1) ELSE done

\* products_for_pd: what of a block the sync hands to the reconciler.
ProductForPd(block) ==
    [name |-> block.name, price |-> block.price, quantity |-> block.quantity,
     currency |-> block.currency, discount |-> block.discount,
     discount_type |-> Get(block, "discount_type", "amount"), tax |-> block.tax,
     billing_frequency |-> Get(block, "billing_frequency", "None")]

\* Steps 3 and 4 of bp_sync_products_to_deal: replace the deal's products, then
\* write the note.
ReplaceAndNote(st, parsed, event_type, currency) ==
    Do(pd_replace_deal_products(st, [k \in DOMAIN parsed.included |->
                                       ProductForPd(parsed.included[k])]),
       LAMBDA s1 :
       IF s1.exc THEN s1
       ELSE Do(pd_add_note_to_deal(s1, _build_note(event_type, parsed.included,
                                                   parsed.excluded, currency)),
               LAMBDA s2 : IF s2.exc THEN s2 ELSE Return(s2, None)))

\* The note of a proposal without products.
NoProductsNote(event_type) ==
    <<NoteLine("header", <<>>, event_type), NoteLine("no products", <<>>, "")>>

bp_sync_products_to_deal_always_replaces(st, proposal, event_type) ==
    Do(bp_get_proposal(st, proposal), LAMBDA s1 :
       IF s1.exc THEN s1
       ELSE IF bp_parse_line_items(Val(s1.ret)).exc THEN Raise(s1)
       ELSE ReplaceAndNote(s1, bp_parse_line_items(Val(s1.ret)), event_type,
                           Get(Val(s1.ret), "CurrencyCode", "EUR")))
bp_sync_products_to_deal(st, proposal, event_type) ==
    Do(bp_get_proposal(st, proposal), LAMBDA s1 :
       IF s1.exc THEN s1
       ELSE LET parsed == bp_parse_line_items(Val(s1.ret))
            IN IF parsed.exc THEN Raise(s1)
               ELSE IF parsed.included = <<>>
               THEN Do(pd_add_note_to_deal(s1, NoProductsNote(event_type)),
                       LAMBDA s2 : IF s2.exc THEN s2 ELSE Return(s2, None))
               ELSE ReplaceAndNote(s1, parsed, event_type,
                                   Get(Val(s1.ret), "CurrencyCode", "EUR")))

----------------------------------------------------------------------------
(* Sequential syncs: each bp_sync_products_to_deal call runs from start to *)
(* finish before the next one begins.                                      *)

\* One required product billed monthly, and one optional product left unselected.
MonthlyWithOption ==
    Proposal(<<[Title |-> NameP1,
                Items |-> <<Item(FALSE, FALSE, 100000, 0, "Monthly Payment"),
                            Item(TRUE, FALSE, 5000, 0, "Monthly Payment")>>]>>)

\* Two tables with a product each, the second one discounted.
TwoBlocks ==
    Proposal(<<[Title |-> NameP1,
                Items |-> <<Item(FALSE, FALSE, 5000, 0, "One Time Payment")>>],
               [Title |-> NameP10,
                Items |-> <<Item(TRUE, TRUE, 1225, 10, "Annual Payment")>>]>>)

\* Proposals that leave nothing included: options nobody selected, a table
\* without a title, no table at all.
NothingSelected ==
    Proposal(<<[Title |-> NameP1,
                Items |-> <<Item(TRUE, FALSE, 5000, 0, "One Time Payment")>>]>>)
Untitled ==
    Proposal(<<[Title |-> <<" ">>,
                Items |-> <<Item(FALSE, FALSE, 5000, 0, "One Time Payment")>>]>>)

SyncProposals ==
    {MonthlyWithOption, TwoBlocks, NothingSelected, Untitled, [CurrencyCode |-> "EUR"]}

EventTypes == {"signed"}

InitSync ==
    /\ notes = <<>>
    /\ catalog \in InitCatalogs
    /\ dealProducts \in InitDeals(catalog)
    /\ dpSeq = Len(dealProducts)
    /\ runs = 0
    /\ last = NoCall
    /\ procs = <<>>
    /\ ErpIdle

\* One whole bp_sync_products_to_deal(proposal_id, deal_id, event_type) call:
\* the lookup, the reconciler's requests, the note.
SyncCall ==
    /\ runs < MaxRuns
    /\ \E proposal \in SyncProposals, event_type \in EventTypes,
          listOk \in BOOLEAN, commit \in BOOLEAN :
       \E failAt \in 0..(2 + MaxCalls(Len(dealProducts),
                                      Len(bp_parse_line_items(proposal).included))) :
          LET st == bp_sync_products_to_deal(World(failAt, commit, listOk), proposal,
                                             event_type)
          IN /\ catalog' = st.catalog
             /\ dealProducts' = st.deal
             /\ dpSeq' = st.dpSeq
             /\ notes' = st.notes
             /\ runs' = runs + 1
             /\ last' = [op |-> "sync", proposal |-> proposal, event_type |-> event_type,
                         completed |-> ~st.exc, listOk |-> listOk, commit |-> commit,
                         failed |-> failAt \in 1..st.calls, calls |-> st.calls,
                         before |-> [deal |-> dealProducts, dpSeq |-> dpSeq,
                                     catalog |-> catalog, notes |-> notes]]
    /\ UNCHANGED <<procs, crm, allow, erpVars>>

NextSync == SyncCall

SpecSync == InitSync /\ [][NextSync]_vars

----------------------------------------------------------------------------
(* Claims about bp_sync_products_to_deal *)

Synced == last.op = "sync"

\* What the parser makes of the proposal of the last sync.
IncludedOf(proposal) == bp_parse_line_items(proposal).included

\* The last sync added exactly one note to the deal's notes.
OneNoteWritten ==
    /\ Len(notes) = Len(last.before.notes) + 1
    /\ SubSeq(notes, 1, Len(last.before.notes)) = last.before.notes

\* The deal-product entries the last sync attached, in the order attached.
Committed == SelectSeq(dealProducts, LAMBDA e : e.id > last.before.dpSeq)

\* The ids of the entries attached to the deal before the last sync.
IdsBefore == {last.before.deal[k].id : k \in DOMAIN last.before.deal}

\* C18: a sync whose proposal parses to no included block leaves the deal's
\* product list and the catalog as they were; unless a request fails in
\* transport, it raises nothing and writes exactly one note.
C18_NothingIncludedOnlyNotes ==
    (Synced /\ IncludedOf(last.proposal) = <<>>) =>
        /\ dealProducts = last.before.deal
        /\ catalog = last.before.catalog
        /\ ~last.failed => (last.completed /\ OneNoteWritten)

\* A sync of a proposal whose options nobody selected has run on a deal that
\* has a product, and has written its note.
C18_Witness ==
    /\ Synced
    /\ last.proposal = NothingSelected
    /\ last.before.deal # <<>>
    /\ last.completed
    /\ OneNoteWritten

\* C13: a sync that aborts leaves behind deletions only: no entry it attached,
\* no catalog product it created, no note it wrote. (Stated for aborts whose
\* failing request the server had not applied.)
C13_AbortLeavesOnlyDeletions ==
    (Synced /\ ~last.completed /\ ~last.commit) =>
        /\ \A k \in DOMAIN dealProducts : dealProducts[k].id \in IdsBefore
        /\ catalog = last.before.catalog
        /\ notes = last.before.notes

\* The note of the end-to-end scenario: a net total of 1,000.00 and a
\* not-selected section with the 50.00 item.
ScenarioNote(note) ==
    /\ \E k \in DOMAIN note :
          note[k].kind = "total" /\ note[k].text = Euro \o "1,000.00"
    /\ \E k, j \in DOMAIN note :
          /\ k < j
          /\ note[k].kind = "not selected"
          /\ note[j].kind = "excluded"
          /\ note[j].text = Euro \o "50.00/month"

\* C17: the end-to-end scenario, synced to completion against any prior deal
\* state, leaves exactly one product on the deal, named "Phase 1" (up to case
\* and surrounding blanks) and priced 1000.00, and one more note, with the net
\* total and the unselected option.
C17_ScenarioEndToEnd ==
    (Synced /\ last.proposal = MonthlyWithOption /\ last.completed) =>
        /\ Len(dealProducts) = 1
        /\ NormName(dealProducts[1].name) = NormName(NameP1)
        /\ dealProducts[1].item_price = 100000
        /\ OneNoteWritten
        /\ ScenarioNote(notes[Len(notes)])

\* C20: the entries a completed sync attached carry, block by block, the
\* billing cadence the parser derived.
C20_CadenceCarried ==
    (Synced /\ last.completed /\ IncludedOf(last.proposal) # <<>>) =>
        /\ Len(Committed) = Len(IncludedOf(last.proposal))
        /\ \A k \in DOMAIN Committed :
              Committed[k].billing_frequency
                  = IncludedOf(last.proposal)[k].billing_frequency

====
